---- MODULE Spec2Model ----
(***************************************************************************)
(* World Bank document downloader (wb_downloader.py): the paginated API    *)
(* client with its retry loop, the PID/PAD classifier, the language and    *)
(* recency selection, the idempotent downloader, and the run that drives   *)
(* them and keeps the manifest and the summary.                            *)
(*                                                                         *)
(* Text is modelled as a sequence of one-character strings, so that the    *)
(* regular expressions, lower() and the comparison of dates are computed   *)
(* on characters as Python computes them.  A JSON value is a record with a *)
(* kind: [kind |-> "str", val |-> chars], [kind |-> "dict", val |-> f] or  *)
(* [kind |-> "null"]; a document is a function from its keys to values.    *)
(***************************************************************************)
EXTENDS Integers, Sequences, FiniteSets, TLC

VARIABLES
  \* what a run is given
  input,            \* the projects CSV: [kind, projects]
  server,           \* the WDS API: project id -> [docs, shape, answers]
  languages,        \* --languages: "en" or "all"
  latest_only,      \* --latest-only
  \* the output directory
  files,            \* the PDF files under out_dir: path -> content
  dirs,             \* the directories made under out_dir (<<>> is out_dir itself)
  manifest_csv,     \* out_dir/manifest.csv: [exists, lines]
  summary_csv,      \* out_dir/summary.csv: [exists, lines]
  \* one run of WorldBankDownloader.run
  run_no,           \* the runs started so far
  dry_run,          \* --dry-run of the current run
  pc,               \* where the run is
  proj_i,           \* index of the project being processed
  manifest_data,    \* self.manifest_data
  summary_data,     \* summary_data of run()
  failed_projects,  \* failed_projects of run()
  stats,            \* self.stats
  exit_code,        \* what run() returned, -1 while it has not returned
  \* process_project and get_project_documents
  offset,           \* offset of get_project_documents
  all_docs,         \* all_docs of get_project_documents
  filtered,         \* filtered_docs
  doc_type,         \* the type the loop of process_project is at: "PID", "PAD", "end"
  selected_docs,    \* selected_docs of that type
  doc_i,            \* index of the next selected document
  pid_paths,        \* pid_paths
  pad_paths,        \* pad_paths
  \* what was observed
  api_log,          \* [offset, attempts, got_page] of each call of call_wds_api for the current project
  last_call,        \* the last of these calls: what each attempt ended in, the delays, the result
  dl_log,           \* one entry for each call of _download_document in the current run
  prev,             \* the output directory and the previous run's record, at the start of the run
  \* the pure functions on their own
  arg,              \* the input of the call
  res,              \* what the call returned
  phase             \* "idle", "in", "by_language", "out"

(***************************************************************************)
(* Characters and strings                                                  *)
(***************************************************************************)
LowerTable ==
  [A |-> "a", B |-> "b", C |-> "c", D |-> "d", E |-> "e", F |-> "f", G |-> "g",
   H |-> "h", I |-> "i", J |-> "j", K |-> "k", L |-> "l", M |-> "m", N |-> "n",
   O |-> "o", P |-> "p", Q |-> "q", R |-> "r", S |-> "s", T |-> "t", U |-> "u",
   V |-> "v", W |-> "w", X |-> "x", Y |-> "y", Z |-> "z"]

\* \w of the re module, on the characters the model uses
WordChars ==
  {"a", "b", "c", "d", "e", "f", "g", "h", "i", "j", "k", "l", "m", "n", "o",
   "p", "q", "r", "s", "t", "u", "v", "w", "x", "y", "z", "A", "B", "C", "D",
   "E", "F", "G", "H", "I", "J", "K", "L", "M", "N", "O", "P", "Q", "R", "S",
   "T", "U", "V", "W", "X", "Y", "Z", "0", "1", "2", "3", "4", "5", "6", "7",
   "8", "9", "_"}

\* \s of the re module
SpaceChars == {" ", "\t", "\n"}

\* code points of the characters that dates are made of (str comparison)
CharCode ==
  [c \in {"-", "0", "1", "2", "3", "4", "5", "6", "7", "8", "9", ":", "T", "Z"} |->
     CASE c = "-" -> 45 [] c = "0" -> 48 [] c = "1" -> 49 [] c = "2" -> 50
       [] c = "3" -> 51 [] c = "4" -> 52 [] c = "5" -> 53 [] c = "6" -> 54
       [] c = "7" -> 55 [] c = "8" -> 56 [] c = "9" -> 57 [] c = ":" -> 58
       [] c = "T" -> 84 [] c = "Z" -> 90]

\* str.lower()
lower(s) == [i \in 1..Len(s) |-> IF s[i] \in DOMAIN LowerTable THEN LowerTable[s[i]] ELSE s[i]]

\* a < b on str: the first differing code point decides, a proper prefix is smaller
RECURSIVE StrLess(_, _)
StrLess(a, b) ==
  IF b = <<>> THEN FALSE
  ELSE IF a = <<>> THEN TRUE
  ELSE IF a[1] = b[1] THEN StrLess(Tail(a), Tail(b))
  ELSE CharCode[a[1]] < CharCode[b[1]]

(***************************************************************************)
(* JSON values and dict.get                                                *)
(***************************************************************************)
Str(s) == [kind |-> "str", val |-> s]
Dict(d) == [kind |-> "dict", val |-> d]
Null == [kind |-> "null"]

\* dict.get(key, default)
Get(d, key, default) == IF key \in DOMAIN d THEN d[key] ELSE default

(***************************************************************************)
(* The two patterns (re.search on the text, case ignored)                  *)
(***************************************************************************)
lit_project_information_document ==
  <<"p","r","o","j","e","c","t"," ","i","n","f","o","r","m","a","t","i","o","n"," ",
    "d","o","c","u","m","e","n","t">>
lit_pid == <<"p","i","d">>
lit_slash == <<"/">>
lit_isds == <<"i","s","d","s">>
lit_concept == <<"c","o","n","c","e","p","t">>
lit_appraisal == <<"a","p","p","r","a","i","s","a","l">>
lit_stage == <<"s","t","a","g","e">>
lit_project == <<"p","r","o","j","e","c","t">>
lit_program == <<"p","r","o","g","r","a","m">>
lit_document == <<"d","o","c","u","m","e","n","t">>
lit_pad == <<"p","a","d">>

IsWordAt(s, i) == i >= 1 /\ i <= Len(s) /\ s[i] \in WordChars

\* \b between position i-1 and position i
WordBoundaryAt(s, i) == IsWordAt(s, i - 1) # IsWordAt(s, i)

\* the literal lit occupies s[i .. i+Len(lit)-1]
LitAt(s, i, lit) ==
  /\ i >= 1
  /\ i + Len(lit) - 1 <= Len(s)
  /\ \A k \in 1..Len(lit) : s[i + k - 1] = lit[k]

\* the positions \s* can stop at when it starts at i
AfterSpaces(s, i) == {j \in i..(Len(s) + 1) : \A k \in i..(j - 1) : s[k] \in SpaceChars}

\* the positions \s+ can stop at when it starts at i
AfterSpaces1(s, i) == AfterSpaces(s, i) \ {i}

\* (?i)\bproject information document\b|\bpid\b|pid\s*\/\s*isds|(concept|appraisal)\s*stage
pid_pattern_search(text) ==
  LET s == lower(text) IN
  \E i \in 1..Len(s) :
    \/ /\ WordBoundaryAt(s, i)
       /\ LitAt(s, i, lit_project_information_document)
       /\ WordBoundaryAt(s, i + Len(lit_project_information_document))
    \/ /\ WordBoundaryAt(s, i)
       /\ LitAt(s, i, lit_pid)
       /\ WordBoundaryAt(s, i + Len(lit_pid))
    \/ /\ LitAt(s, i, lit_pid)
       /\ \E j \in AfterSpaces(s, i + Len(lit_pid)) :
            /\ LitAt(s, j, lit_slash)
            /\ \E k \in AfterSpaces(s, j + 1) : LitAt(s, k, lit_isds)
    \/ \E w \in {lit_concept, lit_appraisal} :
         /\ LitAt(s, i, w)
         /\ \E j \in AfterSpaces(s, i + Len(w)) : LitAt(s, j, lit_stage)

\* (?i)\b(project|program)\s+appraisal\s+document\b|\bpad\b
pad_pattern_search(text) ==
  LET s == lower(text) IN
  \E i \in 1..Len(s) :
    \/ /\ WordBoundaryAt(s, i)
       /\ \E w \in {lit_project, lit_program} :
            /\ LitAt(s, i, w)
            /\ \E j \in AfterSpaces1(s, i + Len(w)) :
                 /\ LitAt(s, j, lit_appraisal)
                 /\ \E k \in AfterSpaces1(s, j + Len(lit_appraisal)) :
                      /\ LitAt(s, k, lit_document)
                      /\ WordBoundaryAt(s, k + Len(lit_document))
    \/ /\ WordBoundaryAt(s, i)
       /\ LitAt(s, i, lit_pad)
       /\ WordBoundaryAt(s, i + Len(lit_pad))

(***************************************************************************)
(* DocumentClassifier                                                      *)
(***************************************************************************)
\* the lowered display name: docna is a string, or the nested {'0': {'docna': ...}}
docna_lowered(doc) ==
  LET docna_field == Get(doc, "docna", Str(<<>>)) IN
  IF docna_field.kind = "dict"
  THEN IF "0" \in DOMAIN docna_field.val /\ "docna" \in DOMAIN docna_field.val["0"]
       THEN lower(docna_field.val["0"]["docna"].val)
       ELSE <<>>
  ELSE lower(docna_field.val)

\* mutant: the PAD pattern is tried before the PID pattern
detect_document_type_pad_first(doc) ==
  LET docty == lower(Get(doc, "docty", Str(<<>>)).val)
      docna == docna_lowered(doc)
  IN IF pad_pattern_search(docty) \/ pad_pattern_search(docna) THEN "PAD"
     ELSE IF pid_pattern_search(docty) \/ pid_pattern_search(docna) THEN "PID"
     ELSE "None"

detect_document_type(doc) ==
  LET docty == lower(Get(doc, "docty", Str(<<>>)).val)
      docna == docna_lowered(doc)
  IN IF pid_pattern_search(docty) \/ pid_pattern_search(docna) THEN "PID"
     ELSE IF pad_pattern_search(docty) \/ pad_pattern_search(docna) THEN "PAD"
     ELSE "None"

\* filter_documents: the documents of one type, in the order of docs
filter_documents(docs) ==
  [PID |-> SelectSeq(docs, LAMBDA d : detect_document_type(d) = "PID"),
   PAD |-> SelectSeq(docs, LAMBDA d : detect_document_type(d) = "PAD")]

(***************************************************************************)
(* SelectionPolicy                                                         *)
(***************************************************************************)
en == <<"e","n">>
xx == <<"x","x">>
d0000 == <<"0","0","0","0","-","0","0","-","0","0">>
d2020 == <<"2","0","2","0","-","0","1","-","0","1">>
d2021 == <<"2","0","2","1","-","0","6","-","1","5">>
EN == <<"E","N">>
fr == <<"f","r">>

\* doc.get('lang', '').lower() == 'en'
is_english(doc) == lower(Get(doc, "lang", Str(<<>>)).val) = en

\* mutant: no fallback to the first document when none is English
select_documents_by_language_no_fallback(language_mode, docs) ==
  IF language_mode = "all" THEN docs ELSE SelectSeq(docs, is_english)

select_documents_by_language(language_mode, docs) ==
  IF language_mode = "all" THEN docs
  ELSE LET english_docs == SelectSeq(docs, is_english) IN
       IF english_docs # <<>> THEN english_docs
       ELSE IF docs # <<>> THEN <<docs[1]>>
       ELSE <<>>

\* variant: the key of by_lang is the language tag as written
lang_key_as_written(doc) == Get(doc, "lang", Str(xx)).val

\* doc.get('lang', 'xx').lower(): the key of by_lang
lang_key(doc) == lower(Get(doc, "lang", Str(xx)).val)

\* x.get('docdt', '0000-00-00'): the key of the sort
date_key(doc) == Get(doc, "docdt", Str(d0000)).val

\* the keys of by_lang in insertion order: each language at its first document
RECURSIVE by_lang_keys(_)
by_lang_keys(docs) ==
  IF docs = <<>> THEN <<>>
  ELSE LET rest == by_lang_keys(SubSeq(docs, 1, Len(docs) - 1))
           k == lang_key(docs[Len(docs)])
       IN IF \E i \in 1..Len(rest) : rest[i] = k THEN rest ELSE Append(rest, k)

\* sorted(..., key=docdt, reverse=True): stable, so equal dates keep their order
RECURSIVE sorted_newest_first(_)
sorted_newest_first(docs) ==
  IF docs = <<>> THEN <<>>
  ELSE LET rest == sorted_newest_first(SubSeq(docs, 1, Len(docs) - 1))
           d == docs[Len(docs)]
           \* d goes after every document whose date is not smaller than its own
           n == Cardinality({i \in 1..Len(rest) : ~StrLess(date_key(rest[i]), date_key(d))})
       IN SubSeq(rest, 1, n) \o <<d>> \o SubSeq(rest, n + 1, Len(rest))

\* mutant: the sort is ascending, so the oldest document of a language is taken
select_latest_documents_oldest(only_latest, docs) ==
  IF ~only_latest THEN docs
  ELSE LET keys == by_lang_keys(docs) IN
       [g \in 1..Len(keys) |->
          LET sorted_docs == sorted_newest_first(SelectSeq(docs, LAMBDA d : lang_key(d) = keys[g]))
          IN sorted_docs[Len(sorted_docs)]]

\* variant: among the documents of a language that share the greatest date the last is taken
select_latest_documents_last_tied(only_latest, docs) ==
  IF ~only_latest THEN docs
  ELSE LET keys == by_lang_keys(docs) IN
       [g \in 1..Len(keys) |->
          LET sorted_docs == sorted_newest_first(SelectSeq(docs, LAMBDA d : lang_key(d) = keys[g]))
              tied == SelectSeq(sorted_docs, LAMBDA d : date_key(d) = date_key(sorted_docs[1]))
          IN tied[Len(tied)]]

select_latest_documents(only_latest, docs) ==
  IF ~only_latest THEN docs
  ELSE LET keys == by_lang_keys(docs) IN
       [g \in 1..Len(keys) |->
          LET sorted_docs == sorted_newest_first(SelectSeq(docs, LAMBDA d : lang_key(d) = keys[g]))
          IN sorted_docs[1]]

(***************************************************************************)
(* PathNamer                                                               *)
(***************************************************************************)
max_length == 120

\* unicodedata.normalize('NFKD', .): a letter with a diacritic becomes the letter
\* followed by the combining mark (named here by the words in the string)
NFKDTable ==
  [a_tilde |-> <<"a", "combining_tilde">>, e_acute |-> <<"e", "combining_acute">>]

RECURSIVE normalize_nfkd(_)
normalize_nfkd(text) ==
  IF text = <<>> THEN <<>>
  ELSE IF Len(text) = 1
  THEN (IF text[1] \in DOMAIN NFKDTable THEN NFKDTable[text[1]] ELSE text)
  ELSE LET half == Len(text) \div 2 IN
       normalize_nfkd(SubSeq(text, 1, half)) \o normalize_nfkd(SubSeq(text, half + 1, Len(text)))

\* re.sub(r'[^\w\s-]', '', text)
drop_non_word(text) == SelectSeq(text, LAMBDA c : c \in WordChars \/ c \in SpaceChars \/ c = "-")

\* re.sub(r'[-\s]+', '-', text): every maximal run of hyphens and spaces becomes one hyphen
RECURSIVE collapse_runs(_)
collapse_runs(text) ==
  IF text = <<>> THEN <<>>
  ELSE IF Len(text) = 1
  THEN (IF text[1] \in SpaceChars \/ text[1] = "-" THEN <<"-">> ELSE text)
  ELSE LET half == Len(text) \div 2
           left == collapse_runs(SubSeq(text, 1, half))
           right == collapse_runs(SubSeq(text, half + 1, Len(text)))
       IN IF left[Len(left)] = "-" /\ right[1] = "-" THEN left \o Tail(right) ELSE left \o right

lstrip_hyphen(text) ==
  LET kept == {i \in 1..Len(text) : text[i] # "-"} IN
  IF kept = {} THEN <<>>
  ELSE SubSeq(text, CHOOSE i \in kept : \A j \in kept : i <= j, Len(text))

rstrip_hyphen(text) ==
  LET kept == {i \in 1..Len(text) : text[i] # "-"} IN
  IF kept = {} THEN <<>>
  ELSE SubSeq(text, 1, CHOOSE i \in kept : \A j \in kept : i >= j)

\* slug(text, max_length=120)
slug(text) ==
  LET stripped == rstrip_hyphen(lstrip_hyphen(
                    collapse_runs(drop_non_word(lower(normalize_nfkd(text))))))
  IN IF Len(stripped) > max_length
     THEN rstrip_hyphen(SubSeq(stripped, 1, max_length))
     ELSE stripped

NO_REPNB == <<"N","O","-","R","E","P","N","B">>
Unknown == <<"U","n","k","n","o","w","n">>
dot_pdf == <<".","p","d","f">>

\* doc_date.split('T')[0]: the text before the first T
RECURSIVE before_T(_)
before_T(text) ==
  IF text = <<>> \/ text[1] = "T" THEN <<>> ELSE <<text[1]>> \o before_T(Tail(text))

\* the display name as written: docna, or the nested docna['0']['docna'], or 'Unknown'
docna_text(doc) ==
  LET docna_field == Get(doc, "docna", Str(Unknown)) IN
  IF docna_field.kind = "dict"
  THEN IF "0" \in DOMAIN docna_field.val /\ "docna" \in DOMAIN docna_field.val["0"]
       THEN docna_field.val["0"]["docna"].val
       ELSE Unknown
  ELSE docna_field.val

\* doc.get('docdt', '0000-00-00') cut at its 'T'
doc_date(doc) == before_T(Get(doc, "docdt", Str(d0000)).val)

\* generate_filename raises when lang is not a string (None has no lower())
generate_filename_raises(doc) == Get(doc, "lang", Str(xx)).kind # "str"

\* variant: the file name also carries the document's download address
generate_filename_uses_url(doc) ==
  doc_date(doc) \o <<"_">> \o Get(doc, "repnb", Str(NO_REPNB)).val \o <<"_">>
    \o slug(docna_text(doc)) \o <<"_">> \o lower(Get(doc, "lang", Str(xx)).val)
    \o Get(doc, "pdfurl", Str(<<>>)).val \o dot_pdf

\* generate_filename: f"{doc_date}_{repnb}_{docna_slug}_{lang}.pdf"
generate_filename(doc) ==
  doc_date(doc) \o <<"_">> \o Get(doc, "repnb", Str(NO_REPNB)).val \o <<"_">>
    \o slug(docna_text(doc)) \o <<"_">> \o lower(Get(doc, "lang", Str(xx)).val) \o dot_pdf

\* _get_document_path: out_dir / country / f"{project_id}_{slug(project_name)}" / doc_type / filename
get_document_path(doc, resolved_type, project) ==
  <<project.country, project.id \o <<"_">> \o slug(project.title), resolved_type,
    generate_filename(doc)>>

\* the directories mkdir(parents=True) makes for a path below out_dir
parent_dirs(path) == {SubSeq(path, 1, n) : n \in 0..(Len(path) - 1)}

(***************************************************************************)
(* APIClient                                                               *)
(***************************************************************************)
PageSize == 200
max_retries == 3
base_delay == 1

RECURSIVE Pow2(_)
Pow2(n) == IF n = 0 THEN 1 ELSE 2 * Pow2(n - 1)

\* what one session.get can end in: a response with a status code, or a
\* requests.RequestException (connection failure, timeout)
Response(code) == [kind |-> "response", status_code |-> code]
RequestException == [kind |-> "exception"]

\* the JSON bodies: {} and the two shapes of a result page
EmptyJson == [shape |-> "empty", docs |-> <<>>]

\* the page the service serves at an offset: rows=200 records from os=offset on
ServedPage(srv, os) ==
  [shape |-> srv.shape,
   docs |-> SubSeq(srv.docs, os + 1, IF os + PageSize < Len(srv.docs) THEN os + PageSize ELSE Len(srv.docs))]

\* call_wds_api from attempt number attempt on; answers[k] is what the k-th
\* session.get of this call ends in, page the JSON body of a 200 response
RECURSIVE call_wds_api_attempts(_, _, _, _)
call_wds_api_attempts(attempt, delays, answers, page) ==
  IF attempt >= max_retries
  THEN [json |-> EmptyJson, attempts |-> attempt, delays |-> delays]
  ELSE LET a == answers[attempt + 1]
           delay == base_delay * Pow2(attempt)
       IN IF a.kind = "exception"
          THEN call_wds_api_attempts(attempt + 1, Append(delays, delay), answers, page)
          ELSE IF a.status_code = 200
          THEN [json |-> page, attempts |-> attempt + 1, delays |-> delays]
          ELSE IF a.status_code = 429
          THEN call_wds_api_attempts(attempt + 1, Append(delays, delay), answers, page)
          ELSE IF a.status_code >= 500
          THEN call_wds_api_attempts(attempt + 1, Append(delays, delay), answers, page)
          ELSE [json |-> EmptyJson, attempts |-> attempt + 1, delays |-> delays]

\* mutant: a 4xx answer is retried like a 5xx one
call_wds_api_retry_4xx(answers, page) ==
  call_wds_api_attempts(0, <<>>,
    [k \in DOMAIN answers |->
       IF answers[k].kind = "response" /\ answers[k].status_code \in 400..499
       THEN Response(503) ELSE answers[k]], page)

\* mutant: one attempt more than max_retries
call_wds_api_four_attempts(answers, page) ==
  LET first == call_wds_api_attempts(0, <<>>, answers, page) IN
  IF first.attempts = max_retries /\ first.json = EmptyJson
       /\ Len(first.delays) = max_retries /\ answers[max_retries + 1] = Response(200)
  THEN [json |-> page, attempts |-> max_retries + 1, delays |-> first.delays]
  ELSE first

\* call_wds_api(project_id, offset)
call_wds_api(answers, page) == call_wds_api_attempts(0, <<>>, answers, page)

\* the docs of a response: response['response']['docs'], or the values of
\* response['documents']; "none" when the response has neither key
response_docs(json) ==
  IF json.shape \in {"response", "documents"} THEN json.docs ELSE <<>>

\* mutant: the loop goes on after a short page until a page is empty
fetch_goes_on_short_page(json) == response_docs(json) # <<>>

\* one pass of the loop of get_project_documents, after the call: TRUE when the
\* loop goes on to the next page
fetch_goes_on(json) ==
  /\ json.shape # "empty"
  /\ json.shape \in {"response", "documents"}
  /\ response_docs(json) # <<>>
  /\ ~(Len(response_docs(json)) < PageSize)

\* mutant: a call that returned {} throws away what earlier pages gave
fetch_accumulate_reset(docs, json) ==
  IF json.shape = "empty" THEN <<>> ELSE docs \o response_docs(json)

\* all_docs after the pass
fetch_accumulate(docs, json) ==
  IF json.shape \in {"response", "documents"} THEN docs \o response_docs(json) ELSE docs

(***************************************************************************)
(* Downloader                                                              *)
(***************************************************************************)
lit_pdf == <<"p","d","f">>
sha256_prefix == <<"s","h","a","2","5","6",":">>

\* 'pdf' in url.lower()
Contains(text, lit) == \E i \in 1..Len(text) : LitAt(text, i, lit)

\* truth value of a JSON value: None and '' are false
Truthy(v) == v.kind = "str" /\ v.val # <<>>

\* file_path.exists()
Exists(fs, path) == \E f \in fs : f.path = path

ContentOf(fs, path) == (CHOOSE f \in fs : f.path = path).content

\* open(path, 'wb') and the writes: the file holds exactly content afterwards
WriteFile(fs, path, content) ==
  {f \in fs : f.path # path} \cup {[path |-> path, content |-> content]}

\* hashlib.sha256(...).hexdigest(): a digest that is different for different bytes
sha256_hex(content) == sha256_prefix \o content

\* get_file_hash
get_file_hash(fs, path) == IF ~Exists(fs, path) THEN <<>> ELSE sha256_hex(ContentOf(fs, path))

\* the bytes the file server sends for a URL: every URL has its own
BodyAt(url) == url

\* what the streaming GET of download_pdf can end in:
\*   "ok"      200 and the whole body
\*   "empty"   200 and a body of no bytes
\*   "error"   session.get or raise_for_status raises (transport error, non-2xx)
\*   "broken"  iter_content raises after the first chunk was written
Transfers == {"ok", "empty", "error", "broken"}

DownloadResult(success, status, hash, fs, made, requested) ==
  [success |-> success, status |-> status, sha256 |-> hash, files |-> fs,
   dirs_made |-> made, requested |-> requested]

\* mutant: the existence check is missing, the file is fetched and written again
download_pdf_no_exists_check(dry, fs, url, file_path, transfer) ==
  IF dry THEN DownloadResult(TRUE, "dry_run", <<>>, fs, {}, FALSE)
  ELSE IF transfer = "error" THEN DownloadResult(FALSE, "failed", <<>>, fs, {}, TRUE)
  ELSE LET written == IF transfer = "ok" THEN BodyAt(url)
                      ELSE IF transfer = "empty" THEN <<>>
                      ELSE SubSeq(BodyAt(url), 1, 1)
           fs2 == WriteFile(fs, file_path, written)
       IN IF transfer # "broken" /\ Len(written) > 0
          THEN DownloadResult(TRUE, "downloaded", get_file_hash(fs2, file_path), fs2,
                              parent_dirs(file_path), TRUE)
          ELSE DownloadResult(FALSE, "failed", <<>>, fs2, parent_dirs(file_path), TRUE)

\* mutant: the existence check comes before the dry-run check
download_pdf_exists_first(dry, fs, url, file_path, transfer) ==
  IF Exists(fs, file_path)
  THEN DownloadResult(TRUE, "skipped_existing", get_file_hash(fs, file_path), fs, {}, FALSE)
  ELSE IF dry THEN DownloadResult(TRUE, "dry_run", <<>>, fs, {}, FALSE)
  ELSE download_pdf_no_exists_check(dry, fs, url, file_path, transfer)

\* mutant: a dry run fetches and writes like any other run
download_pdf_ignores_dry_run(dry, fs, url, file_path, transfer) ==
  download_pdf_exists_first(FALSE, fs, url, file_path, transfer)

\* variant: a file that exists is written again with the body of the new download
download_pdf_overwrites_existing(dry, fs, url, file_path, transfer) ==
  IF dry THEN DownloadResult(TRUE, "dry_run", <<>>, fs, {}, FALSE)
  ELSE IF Exists(fs, file_path) /\ transfer = "ok"
  THEN LET fs2 == WriteFile(fs, file_path, BodyAt(url)) IN
       DownloadResult(TRUE, "skipped_existing", get_file_hash(fs2, file_path), fs2, {}, FALSE)
  ELSE download_pdf_exists_first(dry, fs, url, file_path, transfer)

\* variant: a file whose transfer did not complete is removed again
download_pdf_removes_partial(dry, fs, url, file_path, transfer) ==
  IF dry THEN DownloadResult(TRUE, "dry_run", <<>>, fs, {}, FALSE)
  ELSE IF Exists(fs, file_path)
  THEN DownloadResult(TRUE, "skipped_existing", get_file_hash(fs, file_path), fs, {}, FALSE)
  ELSE IF transfer = "ok"
  THEN download_pdf_no_exists_check(dry, fs, url, file_path, transfer)
  ELSE DownloadResult(FALSE, "failed", <<>>, fs, parent_dirs(file_path), TRUE)

\* download_pdf(url, file_path) of a downloader with dry_run = dry, on the files fs
download_pdf(dry, fs, url, file_path, transfer) ==
  IF dry THEN DownloadResult(TRUE, "dry_run", <<>>, fs, {}, FALSE)
  ELSE IF Exists(fs, file_path)
  THEN DownloadResult(TRUE, "skipped_existing", get_file_hash(fs, file_path), fs, {}, FALSE)
  ELSE IF transfer = "error" THEN DownloadResult(FALSE, "failed", <<>>, fs, {}, TRUE)
  ELSE LET written == IF transfer = "ok" THEN BodyAt(url)
                      ELSE IF transfer = "empty" THEN <<>>
                      ELSE SubSeq(BodyAt(url), 1, 1)
           fs2 == WriteFile(fs, file_path, written)
       IN IF transfer # "broken" /\ Len(written) > 0
          THEN DownloadResult(TRUE, "downloaded", get_file_hash(fs2, file_path), fs2,
                              parent_dirs(file_path), TRUE)
          ELSE DownloadResult(FALSE, "failed", <<>>, fs2, parent_dirs(file_path), TRUE)

\* _download_document, lines 387-395: pdfurl, else a url that has 'pdf' in it, else none
pdf_url_of(doc) ==
  LET pdf_url == Get(doc, "pdfurl", Null)
      url == Get(doc, "url", Null)
  IN IF Truthy(pdf_url) THEN pdf_url
     ELSE IF Truthy(url) /\ Contains(lower(url.val), lit_pdf) THEN url
     ELSE Null

\* _download_document, lines 416-429
manifest_row(doc, resolved_type, project, pdf_url, file_path, status, hash) ==
  [country |-> project.country,
   project_id |-> project.id,
   project_title |-> project.title,
   doc_type |-> resolved_type,
   doc_date |-> doc_date(doc),
   repnb |-> Get(doc, "repnb", Str(NO_REPNB)).val,
   language |-> Get(doc, "lang", Str(xx)).val,
   source_url |-> Get(doc, "url", Str(<<>>)).val,
   pdf_url |-> pdf_url,
   saved_path |-> file_path,
   status |-> status,
   sha256 |-> hash]

(***************************************************************************)
(* Ledger and Orchestrator                                                 *)
(***************************************************************************)
\* mutant: a project without documents is reported as having a PID
create_project_summary_has_pid(project, has_pid, has_pad, pid_count, pad_count, pids, pads) ==
  [country |-> project.country, project_id |-> project.id, project_title |-> project.title,
   has_pid |-> TRUE, has_pad |-> has_pad, pid_count |-> pid_count,
   pad_count |-> pad_count, pid_paths |-> pids, pad_paths |-> pads]

\* mutant: the counts are those of the documents attempted, after the selection
create_project_summary_counts_paths(project, has_pid, has_pad, pid_count, pad_count, pids, pads) ==
  [country |-> project.country, project_id |-> project.id, project_title |-> project.title,
   has_pid |-> has_pid, has_pad |-> has_pad, pid_count |-> Len(pids),
   pad_count |-> Len(pads), pid_paths |-> pids, pad_paths |-> pads]

\* _create_project_summary
create_project_summary(project, has_pid, has_pad, pid_count, pad_count, pids, pads) ==
  [country |-> project.country, project_id |-> project.id, project_title |-> project.title,
   has_pid |-> has_pid, has_pad |-> has_pad, pid_count |-> pid_count,
   pad_count |-> pad_count, pid_paths |-> pids, pad_paths |-> pads]

manifest_fieldnames ==
  <<"country", "project_id", "project_title", "doc_type", "doc_date", "repnb",
    "language", "source_url", "pdf_url", "saved_path", "status", "sha256">>

summary_fieldnames ==
  <<"country", "project_id", "project_title", "has_pid", "has_pad", "pid_count",
    "pad_count", "pid_paths", "pad_paths">>

HeaderLine(fieldnames) == [kind |-> "header", value |-> fieldnames]
RowLine(row) == [kind |-> "row", value |-> row]
\* mutant: the rows are written last first
LinesLastFirst(rows) == [i \in 1..Len(rows) |-> RowLine(rows[Len(rows) + 1 - i])]

Lines(rows) == [i \in 1..Len(rows) |-> RowLine(rows[i])]

NoFile == [exists |-> FALSE, lines |-> <<>>]

\* mutant: the manifest is not written when the run has no rows
write_manifest_skips_empty(dry, csv, rows) ==
  IF dry \/ rows = <<>> THEN csv
  ELSE [exists |-> TRUE,
        lines |-> IF csv.exists THEN csv.lines \o Lines(rows)
                  ELSE <<HeaderLine(manifest_fieldnames)>> \o Lines(rows)]

\* mutant: the manifest is opened for writing, not for appending
write_manifest_overwrites(dry, csv, rows) ==
  IF dry THEN csv
  ELSE [exists |-> TRUE, lines |-> <<HeaderLine(manifest_fieldnames)>> \o Lines(rows)]

\* write_manifest: nothing in a dry run; else append, with a header when the file is new
write_manifest(dry, csv, rows) ==
  IF dry THEN csv
  ELSE [exists |-> TRUE,
        lines |-> IF csv.exists THEN csv.lines \o Lines(rows)
                  ELSE <<HeaderLine(manifest_fieldnames)>> \o Lines(rows)]

\* mutant: the summary is appended to, like the manifest
write_summary_appends(dry, csv, rows) ==
  IF dry THEN csv
  ELSE [exists |-> TRUE,
        lines |-> IF csv.exists THEN csv.lines \o Lines(rows)
                  ELSE <<HeaderLine(summary_fieldnames)>> \o Lines(rows)]

\* write_summary: nothing in a dry run; else the file is written anew
write_summary(dry, csv, rows) ==
  IF dry THEN csv
  ELSE [exists |-> TRUE, lines |-> <<HeaderLine(summary_fieldnames)>> \o Lines(rows)]

\* mutant: a manifest row is appended only for a download that succeeded
download_document_row_on_success(dry, fs, doc, resolved_type, proj, transfer) ==
  LET file_path == get_document_path(doc, resolved_type, proj)
      pdf_url == pdf_url_of(doc)
  IN IF pdf_url = Null
     THEN [result |-> DownloadResult(FALSE, "failed", <<>>, fs, {}, FALSE), rows |-> <<>>,
           called_download_pdf |-> FALSE]
     ELSE LET r == download_pdf(dry, fs, pdf_url.val, file_path, transfer) IN
          [result |-> r,
           rows |-> IF r.success
                    THEN <<manifest_row(doc, resolved_type, proj, pdf_url.val, file_path,
                                        r.status, r.sha256)>>
                    ELSE <<>>,
           called_download_pdf |-> TRUE]

\* _download_document: the result of download_pdf and the manifest rows it appends
\* (none when the document has no PDF URL)
download_document(dry, fs, doc, resolved_type, proj, transfer) ==
  LET file_path == get_document_path(doc, resolved_type, proj)
      pdf_url == pdf_url_of(doc)
  IN IF pdf_url = Null
     THEN [result |-> DownloadResult(FALSE, "failed", <<>>, fs, {}, FALSE), rows |-> <<>>,
           called_download_pdf |-> FALSE]
     ELSE LET r == download_pdf(dry, fs, pdf_url.val, file_path, transfer) IN
          [result |-> r,
           rows |-> <<manifest_row(doc, resolved_type, proj, pdf_url.val, file_path,
                                   r.status, r.sha256)>>,
           called_download_pdf |-> TRUE]

ZeroStats ==
  [total_projects |-> 0, projects_with_pid |-> 0, projects_with_pad |-> 0,
   downloads_successful |-> 0, downloads_skipped |-> 0, downloads_failed |-> 0]

\* the statistics after one _download_document, lines 352-357
count_download(st, success, status) ==
  IF success /\ status = "downloaded"
  THEN [st EXCEPT !.downloads_successful = @ + 1]
  ELSE IF success /\ status = "skipped_existing"
  THEN [st EXCEPT !.downloads_skipped = @ + 1]
  ELSE [st EXCEPT !.downloads_failed = @ + 1]

\* mutant: a project that raised does not change the exit status
exit_status_always_zero(failed) == 0

\* run, lines 589-593
exit_status(failed) == IF failed # <<>> THEN 1 ELSE 0

\* select_documents_by_language raises when a document's lang is not a string
select_documents_by_language_raises(language_mode, docs) ==
  /\ language_mode # "all"
  /\ \E i \in 1..Len(docs) : Get(docs[i], "lang", Str(<<>>)).kind # "str"

\* select_latest_documents raises when a document's lang is not a string
select_latest_documents_raises(only_latest, docs) ==
  /\ only_latest
  /\ \E i \in 1..Len(docs) : Get(docs[i], "lang", Str(xx)).kind # "str"

\* the order of filtered_docs.items()
NextType(t) == IF t = "PID" THEN "PAD" ELSE "end"

(***************************************************************************)
(* The inputs of the runs                                                  *)
(***************************************************************************)
MaxRuns == 2
MaxFaults == 1

P1 == [id |-> <<"P","1">>, country |-> <<"K">>, title |-> <<"T"," ","1">>]
P2 == [id |-> <<"P","2">>, country |-> <<"K">>, title |-> <<"T","2">>]
NoId == [id |-> <<>>, country |-> <<"K">>, title |-> <<"T","0">>]

\* the projects file: unreadable, without rows, without a required column, or good
Inputs ==
  {[kind |-> "unreadable", projects |-> <<>>],
   [kind |-> "no_rows", projects |-> <<>>],
   [kind |-> "missing_columns", projects |-> <<P1>>],
   [kind |-> "ok", projects |-> <<P1>>],
   [kind |-> "ok", projects |-> <<P1, NoId, P2>>]}

txt_PID == <<"P","I","D">>
txt_PAD == <<"P","A","D">>
txt_ISR == <<"I","S","R">>
txt_Project_Appraisal_Document == <<"P","r","o","j","e","c","t"," ","A","p","p","r","a","i","s","a","l"," ","D","o","c","u","m","e","n","t">>
txt_a_PID_b == <<"a"," ","P","I","D"," ","b">>
txt_A == <<"A">>
txt_B == <<"B">>
de == <<"d","e">>

Url(n) == Str(<<"h", "/", n>>)
url_with_pdf == Str(<<"h", "/", "x", ".", "P", "D", "F">>)

doc_pid_en ==
  [docty |-> Str(txt_PID), docna |-> Str(txt_A), lang |-> Str(en), docdt |-> Str(d2020),
   repnb |-> Str(<<"1">>), url |-> Url("a"), pdfurl |-> Url("1")]

\* another document that gets the path of doc_pid_en
doc_pid_en_twin ==
  [docty |-> Str(txt_PID), docna |-> Str(<<"a">>), lang |-> Str(EN), docdt |-> Str(d2020),
   repnb |-> Str(<<"1">>), url |-> Url("b"), pdfurl |-> Url("2")]

doc_pad_fr ==
  [docty |-> Str(txt_PAD), docna |-> Str(txt_B), lang |-> Str(fr), docdt |-> Str(d2020),
   repnb |-> Str(<<"2">>), url |-> Url("c"), pdfurl |-> Url("3")]

doc_pad_en_2020 ==
  [docty |-> Str(txt_PAD), docna |-> Str(txt_B), lang |-> Str(en), docdt |-> Str(d2020),
   repnb |-> Str(<<"3">>), url |-> Url("d"), pdfurl |-> Url("4")]

doc_pad_en_2021 ==
  [docty |-> Str(txt_PAD), docna |-> Str(txt_B), lang |-> Str(en), docdt |-> Str(d2021),
   repnb |-> Str(<<"4">>), url |-> Url("e"), pdfurl |-> Url("5")]

\* neither pattern matches
doc_other ==
  [docty |-> Str(txt_ISR), docna |-> Str(txt_A), lang |-> Str(en), docdt |-> Str(d2020),
   repnb |-> Str(<<"5">>), url |-> Url("f"), pdfurl |-> Url("6")]

\* the declared type matches PAD, the display name matches PID
doc_padtype_pidname ==
  [docty |-> Str(txt_Project_Appraisal_Document), docna |-> Str(txt_a_PID_b),
   lang |-> Str(en), docdt |-> Str(d2021), repnb |-> Str(<<"6">>), url |-> Url("g"),
   pdfurl |-> Url("7")]

\* the nested shape of docna, no date, no report number, German
doc_pad_nested_de ==
  [docty |-> Str(txt_ISR), docna |-> Dict(("0" :> [docna |-> Str(txt_PAD)])),
   lang |-> Str(de), url |-> Url("i"), pdfurl |-> Url("8")]

\* no pdfurl, and a url without 'pdf'
doc_pid_no_url ==
  [docty |-> Str(txt_PID), docna |-> Str(txt_A), lang |-> Str(en), docdt |-> Str(d2020),
   repnb |-> Str(<<"7">>), url |-> Url("j")]

\* no pdfurl, and a url with 'pdf'
doc_pad_url_pdf ==
  [docty |-> Str(txt_PAD), docna |-> Str(txt_A), lang |-> Str(en), docdt |-> Str(d2020),
   repnb |-> Str(<<"8">>), url |-> url_with_pdf]

\* "lang": null
doc_pad_null_lang ==
  [docty |-> Str(txt_PAD), docna |-> Str(txt_A), lang |-> Null, docdt |-> Str(d2020),
   repnb |-> Str(<<"9">>), url |-> Url("k"), pdfurl |-> Url("9")]

\* the result sets of project P1
ResultSets ==
  {<<>>,
   <<doc_pid_en, doc_pad_fr>>,
   <<doc_pad_en_2020, doc_pad_en_2021>>,
   <<doc_other, doc_padtype_pidname>>,
   <<doc_pid_en, doc_pid_en_twin>>,
   <<doc_pid_no_url, doc_pad_url_pdf>>,
   <<doc_pid_en, doc_pad_null_lang>>,
   <<doc_pad_nested_de>>}

\* what successive session.get calls of one call_wds_api end in
AnswersOk == <<Response(200), Response(200), Response(200), Response(200)>>
AnswersRetried == <<Response(503), RequestException, Response(200), Response(200)>>
AnswersExhausted == <<Response(503), RequestException, Response(429), Response(200)>>
AnswersNotFound == <<Response(404), Response(200), Response(200), Response(200)>>

\* the API for P1: any result set served at once, or one served after retries, or
\* no page at all; for P2: one English PID
ServersOfP1 ==
  {[docs |-> r, shape |-> "response", answers |-> AnswersOk] : r \in ResultSets}
  \cup {[docs |-> <<doc_pid_en, doc_pad_fr>>, shape |-> "documents", answers |-> AnswersRetried],
        [docs |-> <<doc_pid_en>>, shape |-> "response", answers |-> AnswersExhausted],
        [docs |-> <<doc_pid_en>>, shape |-> "response", answers |-> AnswersNotFound]}

ServerOfP2 == [docs |-> <<doc_pid_en>>, shape |-> "response", answers |-> AnswersOk]

ProjectIds == {P1.id, P2.id}

(***************************************************************************)
(* The run                                                                 *)
(***************************************************************************)
given == <<input, server, languages, latest_only>>
outdir == <<files, dirs, manifest_csv, summary_csv>>
runvars == <<run_no, dry_run, pc, proj_i, manifest_data, summary_data, failed_projects,
             stats, exit_code>>
fetchvars == <<offset, all_docs, api_log, last_call>>
projvars == <<filtered, doc_type, selected_docs, doc_i, pid_paths, pad_paths>>
observed == <<dl_log, prev>>
harness == <<arg, res, phase>>
vars == <<given, outdir, runvars, fetchvars, projvars, observed, harness>>

NoCall == [offset |-> 0, received |-> <<>>, delays |-> <<>>, docs |-> <<>>, before |-> <<>>]

HarnessIdle == arg = <<>> /\ res = <<>> /\ phase = "idle"

NoFilter == [PID |-> <<>>, PAD |-> <<>>]

\* the state of a new WorldBankDownloader over an empty output directory
NothingRun ==
  /\ files = {} /\ dirs = {} /\ manifest_csv = NoFile /\ summary_csv = NoFile
  /\ run_no = 0 /\ dry_run = FALSE /\ proj_i = 0
  /\ manifest_data = <<>> /\ summary_data = <<>> /\ failed_projects = <<>>
  /\ stats = ZeroStats /\ exit_code = -1
  /\ offset = 0 /\ all_docs = <<>> /\ api_log = <<>> /\ last_call = NoCall
  /\ filtered = NoFilter /\ doc_type = "end" /\ selected_docs = <<>> /\ doc_i = 0
  /\ pid_paths = <<>> /\ pad_paths = <<>>
  /\ dl_log = <<>>
  /\ prev = [run_no |-> 0, dry_run |-> FALSE, manifest_data |-> <<>>, files |-> {},
             dirs |-> {}, manifest_csv |-> NoFile, summary_csv |-> NoFile, faults |-> 0]

Init ==
  /\ input \in Inputs
  /\ server \in {[id \in ProjectIds |-> IF id = P1.id THEN s1 ELSE ServerOfP2] : s1 \in ServersOfP1}
  /\ languages \in {"en", "all"}
  /\ latest_only \in BOOLEAN
  /\ pc = "idle"
  /\ NothingRun
  /\ HarnessIdle

project == input.projects[proj_i]

\* the transfers that failed since the start of the current run, and before it
FaultsOfRun == Cardinality({i \in 1..Len(dl_log) : dl_log[i].transfer # "ok"})
Faults == prev.faults + FaultsOfRun

Snapshot ==
  [run_no |-> run_no, dry_run |-> dry_run, manifest_data |-> manifest_data, files |-> files,
   dirs |-> dirs, manifest_csv |-> manifest_csv, summary_csv |-> summary_csv,
   faults |-> Faults]

\* mutant: the outputs are written before run returns 1 for an unusable file
RunRejectedWritesOutputs(dry) ==
  /\ pc = "idle" /\ run_no < MaxRuns
  /\ input.kind # "ok"
  /\ run_no' = run_no + 1
  /\ dry_run' = dry
  /\ prev' = Snapshot
  /\ manifest_data' = <<>> /\ summary_data' = <<>> /\ failed_projects' = <<>>
  /\ stats' = ZeroStats /\ dl_log' = <<>>
  /\ exit_code' = 1
  /\ manifest_csv' = write_manifest(dry, manifest_csv, <<>>)
  /\ summary_csv' = write_summary(dry, summary_csv, <<>>)
  /\ UNCHANGED <<given, files, dirs, pc, proj_i, fetchvars, projvars, harness>>

\* run, lines 532-552: the projects file cannot be used, run returns 1
RunRejected(dry) ==
  /\ pc = "idle" /\ run_no < MaxRuns
  /\ input.kind # "ok"
  /\ run_no' = run_no + 1
  /\ dry_run' = dry
  /\ prev' = Snapshot
  /\ manifest_data' = <<>> /\ summary_data' = <<>> /\ failed_projects' = <<>>
  /\ stats' = ZeroStats /\ dl_log' = <<>>
  /\ exit_code' = 1
  /\ UNCHANGED <<given, outdir, pc, proj_i, fetchvars, projvars, harness>>

\* a new downloader is made and run reads the projects
StartRun(dry) ==
  /\ pc = "idle" /\ run_no < MaxRuns
  /\ input.kind = "ok"
  /\ run_no' = run_no + 1
  /\ dry_run' = dry
  /\ prev' = Snapshot
  /\ manifest_data' = <<>> /\ summary_data' = <<>> /\ failed_projects' = <<>>
  /\ stats' = ZeroStats /\ dl_log' = <<>>
  /\ exit_code' = -1
  /\ proj_i' = 1
  /\ pc' = "next"
  /\ UNCHANGED <<given, outdir, fetchvars, projvars, harness>>

\* run, lines 563-565: a row with an empty project id is skipped
SkipProject ==
  /\ pc = "next" /\ proj_i <= Len(input.projects)
  /\ project.id = <<>>
  /\ proj_i' = proj_i + 1
  /\ UNCHANGED <<given, outdir, run_no, dry_run, pc, manifest_data, summary_data,
                 failed_projects, stats, exit_code, fetchvars, projvars, observed, harness>>

\* process_project is entered: get_project_documents starts at offset 0
BeginProject ==
  /\ pc = "next" /\ proj_i <= Len(input.projects)
  /\ project.id # <<>>
  /\ offset' = 0 /\ all_docs' = <<>> /\ api_log' = <<>> /\ last_call' = NoCall
  /\ filtered' = NoFilter /\ doc_type' = "PID" /\ selected_docs' = <<>> /\ doc_i' = 0
  /\ pid_paths' = <<>> /\ pad_paths' = <<>>
  /\ pc' = "fetch"
  /\ UNCHANGED <<given, outdir, run_no, dry_run, proj_i, manifest_data, summary_data,
                 failed_projects, stats, exit_code, observed, harness>>

\* one pass of the loop of get_project_documents: a call of call_wds_api with
\* all its attempts, and what the loop does with the response
FetchPage(answers) ==
  /\ pc = "fetch"
  /\ LET r == call_wds_api(answers, ServedPage(server[project.id], offset)) IN
       /\ api_log' = Append(api_log, [offset |-> offset, attempts |-> r.attempts,
                                      got_page |-> r.json # EmptyJson])
       /\ last_call' = [offset |-> offset,
                        received |-> SubSeq(answers, 1,
                                            IF r.attempts < Len(answers) THEN r.attempts ELSE Len(answers)),
                        delays |-> r.delays,
                        docs |-> response_docs(r.json),
                        before |-> all_docs]
       /\ all_docs' = fetch_accumulate(all_docs, r.json)
       /\ offset' = IF fetch_accumulate(all_docs, r.json) # all_docs THEN offset + PageSize ELSE offset
       /\ pc' = IF fetch_goes_on(r.json) THEN "fetch" ELSE "filter"
  /\ UNCHANGED <<given, outdir, run_no, dry_run, proj_i, manifest_data, summary_data,
                 failed_projects, stats, exit_code, projvars, observed, harness>>

\* the steps that end process_project hand the summary back to run, lines 568-570
ProjectDone(summary) ==
  /\ summary_data' = Append(summary_data, summary)
  /\ stats' = [stats EXCEPT !.total_projects = @ + 1,
                            !.projects_with_pid = IF summary.has_pid THEN @ + 1 ELSE @,
                            !.projects_with_pad = IF summary.has_pad THEN @ + 1 ELSE @]
  /\ proj_i' = proj_i + 1
  /\ pc' = "next"

\* mutant: the exception of a project ends the loop over the projects
ProjectFailedEndsLoop ==
  /\ failed_projects' = Append(failed_projects, project.id)
  /\ proj_i' = Len(input.projects) + 1
  /\ pc' = "next"

\* the exception of a step of process_project reaches run, lines 572-574
ProjectFailed ==
  /\ failed_projects' = Append(failed_projects, project.id)
  /\ proj_i' = proj_i + 1
  /\ pc' = "next"

\* mutant: a project for which no document came back is a failed project
NoDocumentsFails ==
  /\ pc = "filter"
  /\ all_docs = <<>>
  /\ ProjectFailed
  /\ UNCHANGED <<given, outdir, run_no, dry_run, manifest_data, summary_data, stats,
                 exit_code, fetchvars, projvars, observed, harness>>

\* process_project, lines 324-326: no documents came back
NoDocuments ==
  /\ pc = "filter"
  /\ all_docs = <<>>
  /\ ProjectDone(create_project_summary(project, FALSE, FALSE, 0, 0, <<>>, <<>>))
  /\ UNCHANGED <<given, outdir, run_no, dry_run, manifest_data, failed_projects,
                 exit_code, fetchvars, projvars, observed, harness>>

\* process_project, line 329: the documents are classified
FilterDocuments ==
  /\ pc = "filter"
  /\ all_docs # <<>>
  /\ filtered' = filter_documents(all_docs)
  /\ doc_type' = "PID"
  /\ pc' = "select"
  /\ UNCHANGED <<given, outdir, run_no, dry_run, proj_i, manifest_data, summary_data,
                 failed_projects, stats, exit_code, fetchvars, selected_docs, doc_i,
                 pid_paths, pad_paths, observed, harness>>

\* process_project, lines 336-337: no document of the type
SkipType ==
  /\ pc = "select" /\ doc_type # "end"
  /\ filtered[doc_type] = <<>>
  /\ doc_type' = NextType(doc_type)
  /\ UNCHANGED <<given, outdir, runvars, fetchvars, filtered, selected_docs, doc_i,
                 pid_paths, pad_paths, observed, harness>>

SelectionRaises ==
  \/ select_documents_by_language_raises(languages, filtered[doc_type])
  \/ select_latest_documents_raises(latest_only, filtered[doc_type])

\* process_project, lines 340-344, when the selection raises
SelectRaises ==
  /\ pc = "select" /\ doc_type # "end"
  /\ filtered[doc_type] # <<>>
  /\ SelectionRaises
  /\ ProjectFailed
  /\ UNCHANGED <<given, outdir, run_no, dry_run, manifest_data, summary_data, stats,
                 exit_code, fetchvars, projvars, observed, harness>>

\* process_project, lines 340-344: the documents of the type are selected
SelectDocuments ==
  /\ pc = "select" /\ doc_type # "end"
  /\ filtered[doc_type] # <<>>
  /\ ~SelectionRaises
  /\ selected_docs' =
       LET by_language == select_documents_by_language(languages, filtered[doc_type]) IN
       IF latest_only THEN select_latest_documents(latest_only, by_language) ELSE by_language
  /\ doc_i' = 1
  /\ pc' = "download"
  /\ UNCHANGED <<given, outdir, run_no, dry_run, proj_i, manifest_data, summary_data,
                 failed_projects, stats, exit_code, fetchvars, filtered, doc_type, pid_paths,
                 pad_paths, observed, harness>>

\* process_project, lines 347-363, when _get_document_path raises
DownloadRaises ==
  /\ pc = "download"
  /\ generate_filename_raises(selected_docs[doc_i])
  /\ ProjectFailed
  /\ UNCHANGED <<given, outdir, run_no, dry_run, manifest_data, summary_data, stats,
                 exit_code, fetchvars, projvars, observed, harness>>

\* variant: a document that fails ends the documents of its type
DownloadDocumentStopsOnFailure(transfer) ==
  /\ pc = "download"
  /\ ~generate_filename_raises(selected_docs[doc_i])
  /\ LET doc == selected_docs[doc_i]
         file_path == get_document_path(doc, doc_type, project)
         d == download_document(dry_run, files, doc, doc_type, project, transfer)
         r == d.result
     IN /\ transfer # "ok" => (r.requested /\ Faults < MaxFaults)
        /\ files' = r.files
        /\ dirs' = dirs \cup r.dirs_made
        /\ manifest_data' = manifest_data \o d.rows
        /\ stats' = count_download(stats, r.success, r.status)
        /\ pid_paths' = IF doc_type = "PID" THEN Append(pid_paths, file_path) ELSE pid_paths
        /\ pad_paths' = IF doc_type = "PID" THEN pad_paths ELSE Append(pad_paths, file_path)
        /\ dl_log' = Append(dl_log,
             [doc |-> doc, doc_type |-> doc_type, project_id |-> project.id,
              path |-> file_path, called_download_pdf |-> d.called_download_pdf,
              existed |-> Exists(files, file_path),
              content_before |-> IF Exists(files, file_path) THEN ContentOf(files, file_path) ELSE <<>>,
              success |-> r.success, status |-> r.status, sha256 |-> r.sha256,
              requested |-> r.requested, transfer |-> transfer, rows |-> d.rows])
        /\ IF doc_i < Len(selected_docs) /\ r.status # "failed"
           THEN doc_i' = doc_i + 1 /\ UNCHANGED <<pc, doc_type>>
           ELSE doc_i' = 0 /\ pc' = "select" /\ doc_type' = NextType(doc_type)
  /\ UNCHANGED <<given, manifest_csv, summary_csv, run_no, dry_run, proj_i, summary_data,
                 failed_projects, exit_code, fetchvars, filtered, selected_docs, prev,
                 harness>>

\* process_project, lines 347-363: _download_document for the next selected
\* document, the statistics and the path lists
DownloadDocument(transfer) ==
  /\ pc = "download"
  /\ ~generate_filename_raises(selected_docs[doc_i])
  /\ LET doc == selected_docs[doc_i]
         file_path == get_document_path(doc, doc_type, project)
         d == download_document(dry_run, files, doc, doc_type, project, transfer)
         r == d.result
     IN /\ transfer # "ok" => (r.requested /\ Faults < MaxFaults)
        /\ files' = r.files
        /\ dirs' = dirs \cup r.dirs_made
        /\ manifest_data' = manifest_data \o d.rows
        /\ stats' = count_download(stats, r.success, r.status)
        /\ pid_paths' = IF doc_type = "PID" THEN Append(pid_paths, file_path) ELSE pid_paths
        /\ pad_paths' = IF doc_type = "PID" THEN pad_paths ELSE Append(pad_paths, file_path)
        /\ dl_log' = Append(dl_log,
             [doc |-> doc, doc_type |-> doc_type, project_id |-> project.id,
              path |-> file_path, called_download_pdf |-> d.called_download_pdf,
              existed |-> Exists(files, file_path),
              content_before |-> IF Exists(files, file_path) THEN ContentOf(files, file_path) ELSE <<>>,
              success |-> r.success, status |-> r.status, sha256 |-> r.sha256,
              requested |-> r.requested, transfer |-> transfer, rows |-> d.rows])
  /\ IF doc_i < Len(selected_docs)
     THEN doc_i' = doc_i + 1 /\ UNCHANGED <<pc, doc_type>>
     ELSE doc_i' = 0 /\ pc' = "select" /\ doc_type' = NextType(doc_type)
  /\ UNCHANGED <<given, manifest_csv, summary_csv, run_no, dry_run, proj_i, summary_data,
                 failed_projects, exit_code, fetchvars, filtered, selected_docs, prev,
                 harness>>

\* variant: the rows gathered so far are written to the manifest after every project
FinishProjectFlushes ==
  /\ pc = "select" /\ doc_type = "end"
  /\ ProjectDone(create_project_summary(project, Len(filtered.PID) > 0, Len(filtered.PAD) > 0,
                                        Len(filtered.PID), Len(filtered.PAD),
                                        pid_paths, pad_paths))
  /\ manifest_csv' = write_manifest(dry_run, manifest_csv, manifest_data)
  /\ UNCHANGED <<given, files, dirs, summary_csv, run_no, dry_run, manifest_data,
                 failed_projects, exit_code, fetchvars, projvars, observed, harness>>

\* process_project, lines 365-378: the summary of the project
FinishProject ==
  /\ pc = "select" /\ doc_type = "end"
  /\ ProjectDone(create_project_summary(project, Len(filtered.PID) > 0, Len(filtered.PAD) > 0,
                                        Len(filtered.PID), Len(filtered.PAD),
                                        pid_paths, pad_paths))
  /\ UNCHANGED <<given, outdir, run_no, dry_run, manifest_data, failed_projects,
                 exit_code, fetchvars, projvars, observed, harness>>

\* run, lines 576-593: the manifest and the summary are written, run returns
WriteOutputs ==
  /\ pc = "next" /\ proj_i > Len(input.projects)
  /\ manifest_csv' = write_manifest(dry_run, manifest_csv, manifest_data)
  /\ summary_csv' = write_summary(dry_run, summary_csv, summary_data)
  /\ dirs' = IF dry_run THEN dirs ELSE dirs \cup {<<>>}
  /\ exit_code' = exit_status(failed_projects)
  /\ pc' = "idle"
  /\ UNCHANGED <<given, files, run_no, dry_run, proj_i, manifest_data, summary_data,
                 failed_projects, stats, fetchvars, projvars, observed, harness>>

Next ==
  \/ \E dry \in BOOLEAN : RunRejected(dry)
  \/ \E dry \in BOOLEAN : StartRun(dry)
  \/ SkipProject
  \/ BeginProject
  \/ FetchPage(server[project.id].answers)
  \/ NoDocuments
  \/ FilterDocuments
  \/ SkipType
  \/ SelectRaises
  \/ SelectDocuments
  \/ DownloadRaises
  \/ \E transfer \in Transfers : DownloadDocument(transfer)
  \/ FinishProject
  \/ WriteOutputs

Spec == Init /\ [][Next]_vars

(***************************************************************************)
(* APIClient on its own: get_project_documents for one project whose       *)
(* result set has any of the sizes below, the API answering each attempt   *)
(* in any way.  The records are numbered 1..N in API order.                *)
(***************************************************************************)
MaxFullPages == 2

FetchSizes == {k * PageSize + r : k \in 0..MaxFullPages, r \in {0, 1, 47, PageSize - 1}}

AnswerKinds == {Response(200), Response(429), Response(503), Response(404), RequestException}

\* an answer after which call_wds_api makes no further attempt
EndsCall(a) == a.kind = "response" /\ ~(a.status_code = 429 \/ a.status_code >= 500)

\* the answers to the attempts of one call, one more than max_retries allows: any
\* answers up to the first that ends the call; what the API would have answered
\* to later attempts is taken to be 200
AnswerSeqs ==
  {a \in [1..(max_retries + 1) -> AnswerKinds] :
     /\ a[max_retries + 1] = Response(200)
     /\ \A k \in 1..max_retries :
          EndsCall(a[k]) => \A j \in (k + 1)..(max_retries + 1) : a[j] = Response(200)}

InitFetch ==
  /\ input = [kind |-> "ok", projects |-> <<P1>>]
  /\ \E n \in FetchSizes, shape \in {"response", "documents", "other"} :
       server = [id \in {P1.id} |->
                   [docs |-> [i \in 1..n |-> i], shape |-> shape, answers |-> AnswersOk]]
  /\ languages = "en" /\ latest_only = FALSE
  /\ files = {} /\ dirs = {} /\ manifest_csv = NoFile /\ summary_csv = NoFile
  /\ run_no = 1 /\ dry_run = FALSE /\ proj_i = 1
  /\ manifest_data = <<>> /\ summary_data = <<>> /\ failed_projects = <<>>
  /\ stats = ZeroStats /\ exit_code = -1
  /\ offset = 0 /\ all_docs = <<>> /\ api_log = <<>> /\ last_call = NoCall
  /\ filtered = NoFilter /\ doc_type = "PID" /\ selected_docs = <<>> /\ doc_i = 0
  /\ pid_paths = <<>> /\ pad_paths = <<>>
  /\ dl_log = <<>>
  /\ prev = [run_no |-> 0, dry_run |-> FALSE, manifest_data |-> <<>>, files |-> {},
             dirs |-> {}, manifest_csv |-> NoFile, summary_csv |-> NoFile, faults |-> 0]
  /\ pc = "fetch"
  /\ HarnessIdle

NextFetch == \E answers \in AnswerSeqs : FetchPage(answers)

SpecFetch == InitFetch /\ [][NextFetch]_vars


(***************************************************************************)
(* Claims on the API client                                                *)
(***************************************************************************)
TheServer == server[P1.id]
ResultSize == Len(TheServer.docs)

\* a request that failed and is retried: 429, 5xx or a network-level failure
RetriedFailure(a) == a.kind = "exception" \/ a.status_code = 429 \/ a.status_code >= 500

\* a 4xx response other than 429
ClientError(a) == a.kind = "response" /\ a.status_code \in 400..499 /\ a.status_code # 429

\* every page request so far was answered with a page of one of the known shapes
ServedWithoutErrors ==
  /\ TheServer.shape \in {"response", "documents"}
  /\ \A k \in 1..Len(api_log) : api_log[k].got_page

\* C4: when every page is served, the offsets requested are 0, 200, 400, ... in
\* order, the loop goes on exactly while the last page had 200 records, so it ends
\* after ResultSize \div 200 + 1 page requests, with all records once, in API order.
C4_Pagination ==
  ServedWithoutErrors =>
    /\ \A k \in 1..Len(api_log) : api_log[k].offset = (k - 1) * 200
    /\ Len(api_log) <= ResultSize \div 200 + 1
    /\ (pc = "fetch" /\ api_log # <<>>) => Len(last_call.docs) = 200
    /\ pc = "filter" =>
         /\ Len(last_call.docs) < 200
         /\ Len(api_log) = ResultSize \div 200 + 1
         /\ all_docs = TheServer.docs

\* C4 witness: pages of 200, 200 and 47 records gave 447 records in 3 calls
C4_Witness ==
  /\ ServedWithoutErrors
  /\ pc = "filter"
  /\ ResultSize = 447
  /\ Len(api_log) = 3
  /\ Len(last_call.docs) = 47
  /\ Len(all_docs) = 447

\* C5: a page request makes at most 3 attempts whatever mix of 429, 5xx and network
\* failures it meets, a 200 is the last attempt of its request, and after three
\* failures in a row no further request is made and the result is what the earlier
\* pages gave (nothing when it was the first page).
C5_BoundedRetry ==
  /\ \A k \in 1..Len(api_log) : api_log[k].attempts <= 3
  /\ api_log # <<>> =>
       LET got == last_call.received IN
       /\ Len(got) = api_log[Len(api_log)].attempts
       /\ \A k \in 1..Len(got) : got[k] = Response(200) => k = Len(got)
       /\ (Len(got) = 3 /\ \A k \in 1..3 : RetriedFailure(got[k])) =>
            /\ pc = "filter"
            /\ all_docs = last_call.before
            /\ Len(all_docs) = last_call.offset
            /\ all_docs = SubSeq(TheServer.docs, 1, last_call.offset)

\* C5 witness: the second page request failed three times (503, a network failure,
\* 429) and the 200 records of the first page were returned
C5_Witness ==
  /\ pc = "filter"
  /\ Len(api_log) = 2
  /\ last_call.received = <<Response(503), RequestException, Response(429)>>
  /\ last_call.delays = <<1, 2, 4>>
  /\ Len(all_docs) = 200

\* C7 as stated: after a 4xx other than 429 no further attempt is made, no delay
\* is slept for it, and the result is the empty list, whichever page it was.
C7_Original ==
  api_log # <<>> =>
    LET got == last_call.received IN
    \A k \in 1..Len(got) : ClientError(got[k]) =>
      /\ k = Len(got)
      /\ Len(last_call.delays) = k - 1
      /\ pc = "filter"
      /\ all_docs = <<>>

\* C7, amended: after a 4xx other than 429 no further attempt is made, no delay is
\* slept for it, and the loop ends at once with the records of the earlier pages:
\* the empty list when the 4xx came on the first page.
C7_ClientErrorEndsFetch ==
  api_log # <<>> =>
    LET got == last_call.received IN
    \A k \in 1..Len(got) : ClientError(got[k]) =>
      /\ k = Len(got)
      /\ Len(last_call.delays) = k - 1
      /\ pc = "filter"
      /\ all_docs = last_call.before
      /\ all_docs = SubSeq(TheServer.docs, 1, last_call.offset)
      /\ last_call.offset = 0 => all_docs = <<>>

\* C7 witness: a 404 on the first attempt of the second page request
C7_Witness ==
  /\ pc = "filter"
  /\ Len(api_log) = 2
  /\ last_call.received = <<Response(404)>>
  /\ last_call.delays = <<>>
  /\ Len(all_docs) = 200

(***************************************************************************)
(* SelectionPolicy on its own: select_documents_by_language and then, as   *)
(* process_project does, select_latest_documents, applied to every list of *)
(* at most MaxDocs documents over the language tags and dates below.       *)
(***************************************************************************)
MaxDocs == 3


\* Absent stands for "the document has no such key"
Absent == [kind |-> "absent"]
SelectLangs == {Str(en), Str(EN), Str(fr), Absent}
SelectDates == {Str(d2020), Str(d2021), Absent}

DigitChar(i) == <<"0","1","2","3","4","5","6","7","8","9">>[i + 1]

\* the i-th document of a list: its report number is i, so documents differ
SelectDoc(i, lang, docdt) ==
  [k \in {"repnb"} \cup (IF lang = Absent THEN {} ELSE {"lang"})
                   \cup (IF docdt = Absent THEN {} ELSE {"docdt"}) |->
     IF k = "repnb" THEN Str(<<"R", DigitChar(i)>>) ELSE IF k = "lang" THEN lang ELSE docdt]

SelectInputs ==
  UNION {{[i \in 1..n |-> SelectDoc(i, ls[i], ds[i])] :
            ls \in [1..n -> SelectLangs], ds \in [1..n -> SelectDates]} : n \in 0..MaxDocs}


PipelineIdle ==
  /\ input = [kind |-> "ok", projects |-> <<>>]
  /\ server = [id \in {} |-> 0]
  /\ languages = "en" /\ latest_only = FALSE
  /\ pc = "idle"
  /\ NothingRun

InitSelect ==
  /\ PipelineIdle
  /\ arg \in [docs : SelectInputs, languages : {"en", "all"}, latest_only : BOOLEAN]
  /\ res = [by_language |-> <<>>, selected |-> <<>>]
  /\ phase = "in"

\* process_project, line 340: the language step
SelectByLanguage ==
  /\ phase = "in"
  /\ res' = [res EXCEPT !.by_language = select_documents_by_language(arg.languages, arg.docs)]
  /\ phase' = "by_language"
  /\ UNCHANGED <<arg, given, outdir, runvars, fetchvars, projvars, observed>>

\* process_project, lines 343-344: the recency step, only when latest_only
SelectLatest ==
  /\ phase = "by_language"
  /\ res' = [res EXCEPT !.selected =
               IF arg.latest_only
               THEN select_latest_documents(arg.latest_only, res.by_language)
               ELSE res.by_language]
  /\ phase' = "out"
  /\ UNCHANGED <<arg, given, outdir, runvars, fetchvars, projvars, observed>>

NextSelect == SelectByLanguage \/ SelectLatest

SpecSelect == InitSelect /\ [][NextSelect]_vars

(***************************************************************************)
(* Claims on the selection                                                 *)
(***************************************************************************)
\* the positions of s whose element is x
Positions(s, x) == {i \in 1..Len(s) : s[i] = x}

\* the k-th smallest element of a set of integers
KthOf(S, k) == CHOOSE i \in S : Cardinality({j \in S : j < i}) = k - 1

\* a document is English-tagged when it has a language tag that reads "en", case ignored
EnglishTagged(doc) == "lang" \in DOMAIN doc /\ lower(doc.lang.val) = en

EnglishPositions(docs) == {i \in 1..Len(docs) : EnglishTagged(docs[i])}

\* C9: the language step returns the input unchanged under "all"; under "en" it
\* returns the English-tagged documents in their original order when there is one,
\* the first document alone when there is none, and nothing only for an empty input.
C9_LanguageStep ==
  phase \in {"by_language", "out"} =>
    LET docs == arg.docs
        out == res.by_language
        E == EnglishPositions(docs)
    IN /\ arg.languages = "all" => out = docs
       /\ (arg.languages = "en" /\ E # {}) =>
            /\ Len(out) = Cardinality(E)
            /\ \A k \in 1..Len(out) : out[k] = docs[KthOf(E, k)]
       /\ (arg.languages = "en" /\ E = {} /\ docs # <<>>) => out = <<docs[1]>>
       /\ (out = <<>>) <=> (docs = <<>>)

\* C9 witness: a non-empty "en" input without an English document went through the step
C9_Witness ==
  /\ phase = "by_language"
  /\ arg.languages = "en"
  /\ Len(arg.docs) = 2
  /\ EnglishPositions(arg.docs) = {}
  /\ res.by_language = <<arg.docs[1]>>

\* C10: with latest_only the recency step returns exactly one document for each
\* language tag (case ignored, a missing tag counting as "xx") among the documents
\* the language step left, and no document of that tag has a greater date; without
\* latest_only the list is unchanged.
C10_LatestOnly ==
  phase = "out" =>
    LET left == res.by_language
        out == res.selected
        tags == {lang_key(left[i]) : i \in 1..Len(left)}
    IN /\ ~arg.latest_only => out = left
       /\ arg.latest_only =>
            /\ Len(out) = Cardinality(tags)
            /\ \A t \in tags : Cardinality({k \in 1..Len(out) : lang_key(out[k]) = t}) = 1
            /\ \A k \in 1..Len(out) :
                 /\ Positions(left, out[k]) # {}
                 /\ \A i \in 1..Len(left) :
                      lang_key(left[i]) = lang_key(out[k])
                        => ~StrLess(date_key(out[k]), date_key(left[i]))

\* C10 witness: two English documents dated 2020-01-01 and 2021-06-15, in that
\* order, were reduced to the 2021-06-15 one
C10_Witness ==
  /\ phase = "out"
  /\ arg.latest_only
  /\ Len(res.by_language) = 2
  /\ \A i \in 1..2 : EnglishTagged(res.by_language[i])
  /\ date_key(res.by_language[1]) = d2020
  /\ date_key(res.by_language[2]) = d2021
  /\ res.selected = <<res.by_language[2]>>


(***************************************************************************)
(* Claims on the whole run                                                 *)
(***************************************************************************)
RunFinished == pc = "idle" /\ run_no >= 1 /\ input.kind = "ok"

\* C1: in the second of two runs that are not dry runs, over the same directory,
\* projects and API, a document the first run recorded as downloaded has its file
\* as the first run left it, no transfer is requested for its path, and once the
\* run is over it is recorded with status skipped_existing and the same hash.
C1_Idempotence ==
  (run_no >= 2 /\ ~dry_run /\ ~prev.dry_run /\ input.kind = "ok") =>
    \A i \in 1..Len(prev.manifest_data) :
      LET row == prev.manifest_data[i] IN
      row.status = "downloaded" =>
        /\ Exists(prev.files, row.saved_path)
        /\ Exists(files, row.saved_path)
        /\ ContentOf(files, row.saved_path) = ContentOf(prev.files, row.saved_path)
        /\ sha256_hex(ContentOf(files, row.saved_path)) = row.sha256
        /\ \A k \in 1..Len(dl_log) : dl_log[k].path = row.saved_path => ~dl_log[k].requested
        /\ pc = "idle" =>
             \E j \in 1..Len(manifest_data) :
               manifest_data[j] = [row EXCEPT !.status = "skipped_existing"]

\* C1 witness: the second run is over and recorded as skipped_existing a document
\* that the first run downloaded
C1_Witness ==
  /\ run_no = 2 /\ ~dry_run /\ ~prev.dry_run /\ pc = "idle"
  /\ \E i \in 1..Len(prev.manifest_data), j \in 1..Len(manifest_data) :
       /\ prev.manifest_data[i].status = "downloaded"
       /\ manifest_data[j] = [prev.manifest_data[i] EXCEPT !.status = "skipped_existing"]
       /\ manifest_data[j].sha256 # <<>>

\* the calls of download_pdf of the current run whose file_path existed
CallsOnExisting == {k \in 1..Len(dl_log) : dl_log[k].called_download_pdf /\ dl_log[k].existed}

SkippedExisting(e) ==
  /\ e.success
  /\ e.status = "skipped_existing"
  /\ e.sha256 = sha256_hex(e.content_before)
  /\ ~e.requested

\* C2 as stated: download_pdf on a path that exists returns (true, skipped_existing,
\* hash of the file) and requests nothing, whatever dry_run is.
C2_Original ==
  \A k \in CallsOnExisting : SkippedExisting(dl_log[k])

\* C2, amended: download_pdf on a path that exists returns (true, skipped_existing,
\* hash of the file) when dry_run is not set, and (true, dry_run, "") when it is;
\* it requests nothing in either case.
C2_ExistingFile ==
  \A k \in CallsOnExisting :
    IF dry_run
    THEN /\ dl_log[k].success
         /\ dl_log[k].status = "dry_run"
         /\ dl_log[k].sha256 = <<>>
         /\ ~dl_log[k].requested
    ELSE SkippedExisting(dl_log[k])

\* C2 witness: download_pdf was called on an existing file in a run that is not a
\* dry run
C2_Witness ==
  \E k \in CallsOnExisting : ~dry_run /\ dl_log[k].content_before # <<>>

\* C3: in a dry run the files, the directories, the manifest and the summary are
\* as they were when the run started, no transfer is requested, and every manifest
\* row of the run has status dry_run.
C3_DryRunPurity ==
  (dry_run /\ run_no >= 1) =>
    /\ files = prev.files
    /\ dirs = prev.dirs
    /\ manifest_csv = prev.manifest_csv
    /\ summary_csv = prev.summary_csv
    /\ \A k \in 1..Len(dl_log) : ~dl_log[k].requested
    /\ \A i \in 1..Len(manifest_data) : manifest_data[i].status = "dry_run"

\* C3 witness: a dry run over a directory that holds files is over, with two
\* manifest rows
C3_Witness ==
  /\ dry_run /\ pc = "idle" /\ run_no = 2
  /\ prev.files # {}
  /\ Len(manifest_data) >= 2
  /\ exit_code = 0

\* every attempt made for the project fails: three retried failures, or a 4xx
NoPageFor(id) ==
  LET a == server[id].answers IN
  \E n \in 1..3 :
    /\ \A k \in 1..(n - 1) : RetriedFailure(a[k])
    /\ ClientError(a[n]) \/ (n = 3 /\ RetriedFailure(a[3]))

SummaryRowsOf(id) == {i \in 1..Len(summary_data) : summary_data[i].project_id = id}

\* C6: when the run is over, a project of the list for which every API attempt
\* failed has one summary row, with has_pid and has_pad false and both counts 0,
\* is counted in total_projects, has no manifest row and is not a failed project;
\* the run returns 1 only when some project is in failed_projects.
C6_ExhaustionNotFatal ==
  RunFinished =>
    /\ \A p \in 1..Len(input.projects) :
         LET id == input.projects[p].id IN
         (id # <<>> /\ NoPageFor(id)) =>
           /\ Cardinality(SummaryRowsOf(id)) = 1
           /\ \A i \in SummaryRowsOf(id) :
                /\ ~summary_data[i].has_pid /\ ~summary_data[i].has_pad
                /\ summary_data[i].pid_count = 0 /\ summary_data[i].pad_count = 0
                /\ summary_data[i].pid_paths = <<>> /\ summary_data[i].pad_paths = <<>>
           /\ \A i \in 1..Len(manifest_data) : manifest_data[i].project_id # id
           /\ \A i \in 1..Len(failed_projects) : failed_projects[i] # id
    /\ stats.total_projects = Len(summary_data)
    /\ exit_code = 1 <=> failed_projects # <<>>
    /\ exit_code \in {0, 1}

\* C6 witness: the three attempts for P1 failed, the run went on to P2 and returned 0
C6_Witness ==
  /\ RunFinished
  /\ server[P1.id].answers = AnswersExhausted
  /\ Len(input.projects) = 3
  /\ SummaryRowsOf(P1.id) # {}
  /\ stats.total_projects = 2
  /\ \E i \in 1..Len(manifest_data) : manifest_data[i].project_id = P2.id
  /\ exit_code = 0

IsPID(doc) ==
  \/ pid_pattern_search(lower(Get(doc, "docty", Str(<<>>)).val))
  \/ pid_pattern_search(docna_lowered(doc))

IsPAD(doc) ==
  /\ ~IsPID(doc)
  /\ \/ pad_pattern_search(lower(Get(doc, "docty", Str(<<>>)).val))
     \/ pad_pattern_search(docna_lowered(doc))

\* C8: once the documents of a project are classified, the PIDs are the documents
\* whose declared type or display name matches the PID pattern and the PADs are the
\* others whose declared type or display name matches the PAD pattern; a document
\* that is neither is not selected, not downloaded, in no manifest row and in no
\* count of the summary.
C8_Classification ==
  /\ pc \in {"select", "download"} =>
       /\ filtered.PID = SelectSeq(all_docs, IsPID)
       /\ filtered.PAD = SelectSeq(all_docs, IsPAD)
       /\ \A k \in 1..Len(all_docs) :
            (~IsPID(all_docs[k]) /\ ~IsPAD(all_docs[k])) =>
              /\ \A i \in 1..Len(filtered.PID) : filtered.PID[i] # all_docs[k]
              /\ \A i \in 1..Len(filtered.PAD) : filtered.PAD[i] # all_docs[k]
  /\ pc = "download" =>
       \A i \in 1..Len(selected_docs) :
         IF doc_type = "PID" THEN IsPID(selected_docs[i]) ELSE IsPAD(selected_docs[i])
  /\ \A k \in 1..Len(dl_log) :
       /\ IF dl_log[k].doc_type = "PID" THEN IsPID(dl_log[k].doc) ELSE IsPAD(dl_log[k].doc)
       /\ \A i \in 1..Len(dl_log[k].rows) : dl_log[k].rows[i].doc_type = dl_log[k].doc_type
  /\ Len(manifest_data) <= Len(dl_log)
  /\ \A i \in 1..Len(summary_data) :
       LET row == summary_data[i]
           docs == server[row.project_id].docs
       IN \/ row.pid_count = 0 /\ row.pad_count = 0 /\ NoPageFor(row.project_id)
          \/ /\ row.pid_count = Len(SelectSeq(docs, IsPID))
             /\ row.pad_count = Len(SelectSeq(docs, IsPAD))
             /\ row.has_pid = (row.pid_count > 0)
             /\ row.has_pad = (row.pad_count > 0)

\* C8 witness: of an unrelated report and a document whose declared type matches
\* PAD and whose display name matches PID, the second alone was kept, as a PID,
\* and a manifest row was written for it
C8_Witness ==
  /\ all_docs = <<doc_other, doc_padtype_pidname>>
  /\ pad_pattern_search(lower(doc_padtype_pidname.docty.val))
  /\ filtered = [PID |-> <<doc_padtype_pidname>>, PAD |-> <<>>]
  /\ \E k \in 1..Len(dl_log) :
       /\ dl_log[k].doc = doc_padtype_pidname
       /\ dl_log[k].doc_type = "PID"
       /\ Len(dl_log[k].rows) = 1

\* the documents get_project_documents returns for a project: every result set
\* here fits one page, which is served or not
FetchedDocs(id) == IF NoPageFor(id) THEN <<>> ELSE server[id].docs

ClassifiedAs(docs, t) == {k \in 1..Len(docs) : detect_document_type(docs[k]) = t}

SummaryRowsWritten == {i \in 1..Len(summary_csv.lines) : summary_csv.lines[i].kind = "row"}

CountsOfFound(row) ==
  LET docs == FetchedDocs(row.project_id) IN
  /\ row.pid_count = Cardinality(ClassifiedAs(docs, "PID"))
  /\ row.pad_count = Cardinality(ClassifiedAs(docs, "PAD"))
  /\ row.has_pid <=> row.pid_count > 0
  /\ row.has_pad <=> row.pad_count > 0

\* C11: in every project summary, of the run and of the summary file, pid_count and
\* pad_count are the numbers of the project's fetched documents classified PID and
\* PAD, whatever the language mode, latest_only, dry_run and the downloads were,
\* and has_pid (has_pad) is true exactly when pid_count (pad_count) is positive.
C11_SummaryCounts ==
  /\ \A i \in 1..Len(summary_data) : CountsOfFound(summary_data[i])
  /\ \A i \in SummaryRowsWritten : CountsOfFound(summary_csv.lines[i].value)

\* C11 witness: two PADs were found and counted, one alone was selected by
\* latest_only, and its download failed
C11_Witness ==
  /\ latest_only
  /\ \E i \in 1..Len(summary_data) :
       /\ summary_data[i].pad_count = 2
       /\ summary_data[i].has_pad /\ ~summary_data[i].has_pid
       /\ Len(summary_data[i].pad_paths) = 1
  /\ stats.downloads_failed = 1

\* the paths of the attempts of the current run for a project and type that ended
\* with a file at the path
PathsWithFile(id, t) ==
  LET made == {k \in 1..Len(dl_log) :
                 /\ dl_log[k].project_id = id /\ dl_log[k].doc_type = t
                 /\ dl_log[k].success
                 /\ dl_log[k].status \in {"downloaded", "skipped_existing"}}
  IN {dl_log[k].path : k \in made}

PathsListed(paths) == {paths[k] : k \in 1..Len(paths)}

\* C12 as stated: in every project summary of the run the paths listed for a type
\* are exactly the paths at which an attempt for this project and type ended with a
\* file on disk; the path of a failed download or of a document without a download
\* URL is not listed.
C12_Original ==
  \A i \in 1..Len(summary_data) :
    LET row == summary_data[i] IN
    /\ PathsListed(row.pid_paths) = PathsWithFile(row.project_id, "PID")
    /\ PathsListed(row.pad_paths) = PathsWithFile(row.project_id, "PAD")
    /\ \A path \in PathsListed(row.pid_paths) \cup PathsListed(row.pad_paths) :
         Exists(files, path)

\* the state that refutes C12: a run that is not a dry run lists, for a PID
\* without a download URL, a path at which there is no file
C12_ListedWithoutFile ==
  /\ ~dry_run /\ pc = "idle"
  /\ \E i \in 1..Len(summary_data) :
       \E path \in PathsListed(summary_data[i].pid_paths) :
         /\ ~Exists(files, path)
         /\ \E k \in 1..Len(dl_log) :
              dl_log[k].path = path /\ ~dl_log[k].called_download_pdf

RECURSIVE RowsOfAttempts(_)
RowsOfAttempts(log) ==
  IF log = <<>> THEN <<>>
  ELSE RowsOfAttempts(SubSeq(log, 1, Len(log) - 1)) \o log[Len(log)].rows

\* C13: every document handed to download_pdf appends exactly one manifest row,
\* with the status download_pdf returned and the path it was given; a document for
\* which no download is attempted appends none; the manifest rows of the run are
\* the rows of its attempts and nothing else, and while the documents of a type
\* are downloaded each selected document before the current one has had exactly
\* one attempt, in the order of the selection.
C13_OneRowPerAttempt ==
  /\ \A k \in 1..Len(dl_log) :
       LET e == dl_log[k] IN
       IF e.called_download_pdf
       THEN /\ Len(e.rows) = 1
            /\ e.rows[1].status = e.status
            /\ e.rows[1].saved_path = e.path
            /\ e.rows[1].sha256 = e.sha256
            /\ e.rows[1].project_id = e.project_id
            /\ e.status \in {"downloaded", "skipped_existing", "dry_run", "failed"}
       ELSE e.rows = <<>>
  /\ manifest_data = RowsOfAttempts(dl_log)
  /\ Len(manifest_data) = Cardinality({k \in 1..Len(dl_log) : dl_log[k].called_download_pdf})
  /\ pc = "download" =>
       /\ Len(dl_log) >= doc_i - 1
       /\ \A j \in 1..(doc_i - 1) :
            LET e == dl_log[Len(dl_log) - (doc_i - 1) + j] IN
            /\ e.doc = selected_docs[j]
            /\ e.doc_type = doc_type
            /\ e.project_id = project.id

\* C13 witness: of two selected documents the first had no download URL and got
\* no row, the second was attempted, failed, and got one row with status failed
C13_Witness ==
  /\ Len(dl_log) = 2
  /\ ~dl_log[1].called_download_pdf
  /\ dl_log[2].called_download_pdf /\ dl_log[2].status = "failed"
  /\ Len(manifest_data) = 1
  /\ manifest_data[1].status = "failed"
  /\ manifest_data[1].saved_path = dl_log[2].path

\* processing the project raises: one of its PID or PAD documents has a lang that
\* is not a string, on which .lower() fails in the selection or in the file name
Raises(p) ==
  /\ p.id # <<>>
  /\ \E k \in 1..Len(FetchedDocs(p.id)) :
       LET doc == FetchedDocs(p.id)[k] IN
       /\ detect_document_type(doc) # "None"
       /\ Get(doc, "lang", Str(xx)).kind # "str"

Completes(p) == p.id # <<>> /\ ~Raises(p)

IdsOf(projects) == [k \in 1..Len(projects) |-> projects[k].id]

AttemptedPaths(id, t) ==
  LET of_type == SelectSeq([k \in 1..Len(dl_log) |-> dl_log[k]],
                           LAMBDA e : e.project_id = id /\ e.doc_type = t)
  IN [k \in 1..Len(of_type) |-> of_type[k].path]

\* a project that does not raise is processed in full: one summary row, with the
\* counts of its documents and the paths of its attempts
ProcessedInFull(p) ==
  /\ Cardinality(SummaryRowsOf(p.id)) = 1
  /\ \A i \in SummaryRowsOf(p.id) :
       /\ CountsOfFound(summary_data[i])
       /\ summary_data[i].pid_paths = AttemptedPaths(p.id, "PID")
       /\ summary_data[i].pad_paths = AttemptedPaths(p.id, "PAD")

\* the manifest file is the file of the start of the run with the rows of the run
\* after it, and the summary file holds the summaries of the run
OutputsWritten ==
  /\ manifest_csv.exists /\ summary_csv.exists
  /\ manifest_csv.lines =
       (IF prev.manifest_csv.exists THEN prev.manifest_csv.lines
        ELSE <<HeaderLine(manifest_fieldnames)>>) \o Lines(manifest_data)
  /\ summary_csv.lines = <<HeaderLine(summary_fieldnames)>> \o Lines(summary_data)

FailuresIsolated ==
  /\ failed_projects = IdsOf(SelectSeq(input.projects, Raises))
  /\ \A k \in 1..Len(input.projects) :
       Completes(input.projects[k]) => ProcessedInFull(input.projects[k])
  /\ failed_projects # <<>> => exit_code = 1

\* C14 as stated: when a project raises, its id is in the failed-project list, the
\* other projects are processed in full, the run returns 1, and the manifest and
\* the summary are written at the end, in a dry run as in any other.
C14_Original ==
  RunFinished =>
    /\ FailuresIsolated
    /\ failed_projects # <<>> => OutputsWritten

\* C14, amended: when a project raises, its id is in the failed-project list, the
\* other projects are processed in full, the run returns 1, and a run that is not
\* a dry run writes the manifest and the summary at the end; a dry run leaves both
\* files as they were.
C14_FailureIsolation ==
  RunFinished =>
    /\ FailuresIsolated
    /\ failed_projects # <<>> =>
         IF dry_run
         THEN manifest_csv = prev.manifest_csv /\ summary_csv = prev.summary_csv
         ELSE OutputsWritten

\* C14 witness: P1 raised after its PID was downloaded, P2 was processed and its
\* PID downloaded, both files were written and the run returned 1
C14_Witness ==
  /\ RunFinished /\ ~dry_run
  /\ failed_projects = <<P1.id>>
  /\ Len(input.projects) = 3
  /\ SummaryRowsOf(P2.id) # {}
  /\ \E i \in 1..Len(manifest_data) :
       manifest_data[i].project_id = P1.id /\ manifest_data[i].status = "downloaded"
  /\ \E i \in 1..Len(manifest_data) :
       manifest_data[i].project_id = P2.id /\ manifest_data[i].status = "downloaded"
  /\ OutputsWritten
  /\ exit_code = 1

RunReturned == pc = "idle" /\ run_no >= 1

NoProjectRaises == \A k \in 1..Len(input.projects) : ~Raises(input.projects[k])

\* C15 as stated: run returns 0 exactly when the projects file could be read, had
\* the three columns and no project raised, and 1 otherwise.
C15_Original ==
  RunReturned =>
    /\ exit_code \in {0, 1}
    /\ exit_code = 0 <=>
         (input.kind \notin {"unreadable", "missing_columns"} /\ NoProjectRaises)

\* C15, amended: run returns 0 exactly when the projects file could be read, had
\* at least one row and the three columns, and no project raised, and 1 otherwise;
\* failed downloads, exhausted retries, rows without an id and projects without
\* documents have no part in it.
C15_ExitStatus ==
  RunReturned =>
    /\ exit_code \in {0, 1}
    /\ exit_code = 0 <=> (input.kind = "ok" /\ NoProjectRaises)

\* C15 witness: a run with a row without id, a project whose retries were exhausted
\* and a failed download returned 0
C15_Witness ==
  /\ RunReturned /\ ~dry_run
  /\ Len(input.projects) = 3
  /\ server[P1.id].answers = AnswersExhausted
  /\ stats.downloads_failed = 1
  /\ exit_code = 0

\* C16: when the projects file cannot be read or lacks a required column, every
\* run returns 1 and there has been no API request, no download attempt, no file
\* or directory made, and no manifest or summary written.
C16_ConfigurationErrorFatal ==
  (run_no >= 1 /\ input.kind \in {"unreadable", "missing_columns"}) =>
    /\ pc = "idle"
    /\ exit_code = 1
    /\ api_log = <<>> /\ last_call = NoCall
    /\ dl_log = <<>>
    /\ manifest_data = <<>> /\ summary_data = <<>>
    /\ files = {} /\ dirs = {}
    /\ manifest_csv = NoFile /\ summary_csv = NoFile

\* C16 witness: a run that is not a dry run over a projects file without a
\* required column has returned
C16_Witness ==
  /\ run_no >= 1 /\ ~dry_run
  /\ input.kind = "missing_columns"
  /\ input.projects # <<>>
  /\ exit_code = 1

\* C17 as stated: a run that passed the validation of its input and reached its
\* end has written the manifest and the summary, in a dry run as in any other.
C17_Original ==
  RunFinished => OutputsWritten

\* C17, amended: a run that is not a dry run, passed the validation of its input
\* and reached its end has written the manifest and the summary, whatever its
\* projects yielded; a dry run that reached its end has left both as they were.
C17_OutputsWritten ==
  RunFinished =>
    IF dry_run
    THEN manifest_csv = prev.manifest_csv /\ summary_csv = prev.summary_csv
    ELSE /\ OutputsWritten
         /\ <<>> \in dirs

\* C17 witness: the one project of the first run yielded no document; the manifest
\* holds its header alone and the summary one row
C17_Witness ==
  /\ RunFinished /\ ~dry_run /\ run_no = 1
  /\ manifest_data = <<>>
  /\ manifest_csv = [exists |-> TRUE, lines |-> <<HeaderLine(manifest_fieldnames)>>]
  /\ Len(summary_csv.lines) = 2
  /\ ~summary_csv.lines[2].value.has_pid /\ ~summary_csv.lines[2].value.has_pad

IsPrefix(s, t) == Len(s) <= Len(t) /\ SubSeq(t, 1, Len(s)) = s

\* C18: the manifest file, once it exists, begins with its header and has no other
\* header line; the lines it had when a run started are never changed or moved, and
\* a finished run that is not a dry run has added its rows, in order, after them.
C18_ManifestAppendOnly ==
  /\ manifest_csv.exists =>
       /\ manifest_csv.lines # <<>>
       /\ manifest_csv.lines[1] = HeaderLine(manifest_fieldnames)
       /\ \A i \in 2..Len(manifest_csv.lines) : manifest_csv.lines[i].kind = "row"
  /\ prev.manifest_csv.exists => manifest_csv.exists
  /\ IsPrefix(prev.manifest_csv.lines, manifest_csv.lines)
  /\ (RunFinished /\ ~dry_run) =>
       /\ manifest_csv.exists
       /\ LET old == IF prev.manifest_csv.exists THEN Len(prev.manifest_csv.lines) ELSE 1
          IN /\ Len(manifest_csv.lines) = old + Len(manifest_data)
             /\ \A i \in 1..Len(manifest_data) :
                  manifest_csv.lines[old + i] = RowLine(manifest_data[i])

\* C18 witness: the second of two runs that are not dry runs added its rows after
\* the header and the rows of the first
C18_Witness ==
  /\ RunFinished /\ ~dry_run /\ ~prev.dry_run /\ run_no = 2
  /\ Len(prev.manifest_csv.lines) >= 3
  /\ Len(manifest_data) >= 2
  /\ Len(manifest_csv.lines) = Len(prev.manifest_csv.lines) + Len(manifest_data)
  /\ manifest_csv.lines[Len(manifest_csv.lines)].value.status = "skipped_existing"

ProjIndex(id) == CHOOSE k \in 1..Len(input.projects) : input.projects[k].id = id

\* what the SelectionPolicy returns for the documents of a type of a project
SelectionOf(id, t) ==
  LET by_language == select_documents_by_language(languages, filter_documents(FetchedDocs(id))[t])
  IN IF latest_only THEN select_latest_documents(latest_only, by_language) ELSE by_language

HasDownloadUrl(doc) == pdf_url_of(doc) # Null

\* the download URLs of the documents attempted for a project and type, in the
\* order of the selection
UrlsAttempted(id, t) ==
  LET attempted == SelectSeq(SelectionOf(id, t), HasDownloadUrl)
  IN [k \in 1..Len(attempted) |-> pdf_url_of(attempted[k]).val]

UrlsOfRows(rows, id, t) ==
  LET of_type == SelectSeq(rows, LAMBDA r : r.project_id = id /\ r.doc_type = t)
  IN [k \in 1..Len(of_type) |-> of_type[k].pdf_url]

InProcessingOrder(rows) ==
  /\ \A i, j \in 1..Len(rows) :
       i < j =>
         /\ ProjIndex(rows[i].project_id) <= ProjIndex(rows[j].project_id)
         /\ rows[i].project_id = rows[j].project_id =>
              ~(rows[i].doc_type = "PAD" /\ rows[j].doc_type = "PID")
  /\ \A k \in 1..Len(input.projects) :
       LET p == input.projects[k] IN
       (Completes(p) /\ SummaryRowsOf(p.id) # {}) =>
         \A t \in {"PID", "PAD"} : UrlsOfRows(rows, p.id, t) = UrlsAttempted(p.id, t)

\* the rows a finished run added to the manifest file
RowsWritten ==
  LET old == IF prev.manifest_csv.exists THEN Len(prev.manifest_csv.lines) ELSE 1
  IN [i \in 1..(Len(manifest_csv.lines) - old) |-> manifest_csv.lines[old + i].value]

\* C19: the manifest rows of a run, as collected and as written to the file, are
\* in processing order: by project in the order of the input, never interleaved,
\* within a project the PID rows before the PAD rows, and the rows of a type in
\* the order in which the selection returned its documents.
C19_ManifestOrder ==
  /\ input.kind = "ok" => InProcessingOrder(manifest_data)
  /\ (RunFinished /\ ~dry_run) =>
       /\ InProcessingOrder(RowsWritten)
       /\ Len(RowsWritten) = Len(manifest_data)

\* C19 witness: the file got the rows of P1, a PID and then a PAD, and after them
\* the row of P2
C19_Witness ==
  /\ RunFinished /\ ~dry_run /\ run_no = 1
  /\ Len(RowsWritten) = 3
  /\ RowsWritten[1].project_id = P1.id /\ RowsWritten[1].doc_type = "PID"
  /\ RowsWritten[2].project_id = P1.id /\ RowsWritten[2].doc_type = "PAD"
  /\ RowsWritten[3].project_id = P2.id

\* C20: when a run that is not a dry run is over, the summary file is its header
\* and one row for each project of the input that has an id and did not raise, in
\* the order of the input, with nothing of an earlier run, and total_projects is
\* the number of these rows; a row of the input without id is never processed: it
\* gets no API call, no summary row and no entry in the failed projects.
C20_SummaryRollup ==
  /\ pc \in {"fetch", "filter", "select", "download"} => project.id # <<>>
  /\ \A i \in 1..Len(summary_data) : summary_data[i].project_id # <<>>
  /\ \A i \in 1..Len(failed_projects) : failed_projects[i] # <<>>
  /\ stats.total_projects = Len(summary_data)
  /\ (RunFinished /\ ~dry_run) =>
       /\ summary_csv.exists
       /\ summary_csv.lines = <<HeaderLine(summary_fieldnames)>> \o
                              [i \in 1..Len(summary_data) |-> RowLine(summary_data[i])]
       /\ [i \in 1..Len(summary_data) |-> summary_data[i].project_id]
            = IdsOf(SelectSeq(input.projects, Completes))
       /\ Len(summary_csv.lines) = 1 + stats.total_projects

\* C20 witness: the second run over P1, a row without id and P2 left a summary of
\* two rows, P1 then P2, where the first run had left two rows as well
C20_Witness ==
  /\ RunFinished /\ ~dry_run /\ run_no = 2
  /\ Len(input.projects) = 3
  /\ Len(prev.summary_csv.lines) = 3
  /\ Len(summary_csv.lines) = 3
  /\ summary_csv.lines[2].value.project_id = P1.id
  /\ summary_csv.lines[3].value.project_id = P2.id
  /\ stats.total_projects = 2

\* the positions of the documents of a language group that carry the group's greatest date
TiedAtMax(docs, key) ==
  {i \in 1..Len(docs) :
     /\ lang_key(docs[i]) = key
     /\ \A j \in 1..Len(docs) :
          lang_key(docs[j]) = key => ~StrLess(date_key(docs[i]), date_key(docs[j]))}

\* C24: when several documents of a language group share the group's greatest
\* date, the recency step keeps the one that stands first in its input list.
C24_TieBreak ==
  (phase = "out" /\ arg.latest_only) =>
    \A k \in 1..Len(res.selected) :
      LET tied == TiedAtMax(res.by_language, lang_key(res.selected[k])) IN
      /\ tied # {}
      /\ res.selected[k] = res.by_language[KthOf(tied, 1)]

\* C24 witness: of three English documents dated 2020-01-01, 2021-06-15 and
\* 2021-06-15, in that order, the second was kept
C24_Witness ==
  /\ phase = "out" /\ arg.latest_only
  /\ Len(res.by_language) = 3
  /\ \A i \in 1..3 : lang_key(res.by_language[i]) = en
  /\ date_key(res.by_language[1]) = d2020
  /\ date_key(res.by_language[2]) = d2021
  /\ date_key(res.by_language[3]) = d2021
  /\ res.selected = <<res.by_language[2]>>

\* C25: in a run that is not a dry run, when two distinct documents handed to
\* download_pdf have the same path and the first was downloaded, the second
\* requests no transfer, is recorded as skipped_existing with the hash of the
\* first document's file, and the file keeps the first document's body.
C25_PathCollision ==
  ~dry_run =>
    \A j, k \in 1..Len(dl_log) :
      (/\ j < k
       /\ dl_log[j].path = dl_log[k].path
       /\ dl_log[j].doc # dl_log[k].doc
       /\ dl_log[j].status = "downloaded"
       /\ dl_log[k].called_download_pdf)
      => /\ ~dl_log[k].requested
         /\ dl_log[k].success /\ dl_log[k].status = "skipped_existing"
         /\ dl_log[k].sha256 = dl_log[j].sha256
         /\ dl_log[k].sha256 = sha256_hex(BodyAt(pdf_url_of(dl_log[j].doc).val))
         /\ Len(dl_log[k].rows) = 1
         /\ dl_log[k].rows[1].status = "skipped_existing"
         /\ dl_log[k].rows[1].sha256 = dl_log[j].sha256
         /\ dl_log[k].content_before = BodyAt(pdf_url_of(dl_log[j].doc).val)
         /\ Exists(files, dl_log[k].path)
         /\ ContentOf(files, dl_log[k].path) = BodyAt(pdf_url_of(dl_log[j].doc).val)

\* C25 witness: in the first run doc_pid_en was downloaded, and doc_pid_en_twin,
\* which has another download URL and the same path, was skipped
C25_Witness ==
  /\ ~dry_run /\ run_no = 1
  /\ Len(dl_log) = 2
  /\ dl_log[1].doc = doc_pid_en /\ dl_log[1].status = "downloaded"
  /\ dl_log[2].doc = doc_pid_en_twin /\ dl_log[2].status = "skipped_existing"
  /\ dl_log[1].path = dl_log[2].path
  /\ ContentOf(files, dl_log[2].path) = BodyAt(pdf_url_of(doc_pid_en).val)
  /\ ContentOf(files, dl_log[2].path) # BodyAt(pdf_url_of(doc_pid_en_twin).val)

\* a transfer that failed after the file was opened: the body broke off, or was empty
FailedAfterOpen(e) == e.called_download_pdf /\ e.requested /\ e.transfer \in {"broken", "empty"}

\* the paths at which the previous run left a file behind a failed download
PathsLeftByFailure ==
  {prev.manifest_data[i].saved_path : i \in
     {n \in 1..Len(prev.manifest_data) :
        /\ prev.manifest_data[n].status = "failed"
        /\ Exists(prev.files, prev.manifest_data[n].saved_path)}}

\* a transfer that fails after the file was opened returns (false, failed, "") and
\* leaves a file, and a later call for the path in the same run skips it
LeftoverInSameRun ==
  /\ \A k \in 1..Len(dl_log) :
       FailedAfterOpen(dl_log[k]) =>
         /\ ~dl_log[k].success /\ dl_log[k].status = "failed" /\ dl_log[k].sha256 = <<>>
         /\ ~dl_log[k].existed
         /\ Exists(files, dl_log[k].path)
  /\ \A j, k \in 1..Len(dl_log) :
       (j < k /\ FailedAfterOpen(dl_log[j]) /\ dl_log[k].path = dl_log[j].path
          /\ dl_log[k].called_download_pdf)
       => SkippedExisting(dl_log[k])

CallsOnLeftover ==
  IF run_no >= 2 /\ ~prev.dry_run
  THEN {k \in 1..Len(dl_log) :
          dl_log[k].called_download_pdf /\ dl_log[k].path \in PathsLeftByFailure}
  ELSE {}

\* C26 as stated: a transfer that fails after the file was opened returns
\* (false, failed, "") and leaves a file, and every later call of download_pdf for
\* the path, in the same run or in a later one, returns (true, skipped_existing,
\* hash) and requests nothing.
C26_Original ==
  /\ LeftoverInSameRun
  /\ \A k \in CallsOnLeftover : SkippedExisting(dl_log[k])

\* C26, amended: as stated, except that a later call in a dry run returns
\* (true, dry_run, ""); in no case is the document requested again or the file
\* left by the failure changed.
C26_NonAtomicWrite ==
  /\ LeftoverInSameRun
  /\ \A k \in CallsOnLeftover :
       /\ IF dry_run
          THEN dl_log[k].success /\ dl_log[k].status = "dry_run" /\ dl_log[k].sha256 = <<>>
          ELSE SkippedExisting(dl_log[k])
       /\ ~dl_log[k].requested
       /\ Exists(files, dl_log[k].path)
       /\ ContentOf(files, dl_log[k].path) = ContentOf(prev.files, dl_log[k].path)

\* C26 witness: the first run left a file behind a failed download, and the second
\* run, not a dry run, skipped the document as existing
C26_Witness ==
  /\ ~dry_run
  /\ \E k \in CallsOnLeftover :
       /\ dl_log[k].status = "skipped_existing"
       /\ dl_log[k].sha256 = sha256_hex(ContentOf(prev.files, dl_log[k].path))

RunInProgress == run_no >= 1 /\ pc # "idle"

\* C27: while a run is processing its projects the manifest file is as it was when
\* the run started, whatever rows the run has gathered and whatever files it has
\* written; the rows reach the file in the one write at the end of the run.
C27_ManifestFlushPoint ==
  RunInProgress => manifest_csv = prev.manifest_csv

\* C27 witness: a second run, in the middle of its projects, has gathered a row and
\* written a file, and the manifest file still is the one the first run left
C27_Witness ==
  /\ RunInProgress /\ run_no = 2
  /\ proj_i <= Len(input.projects)
  /\ manifest_data # <<>>
  /\ files # prev.files
  /\ prev.manifest_csv.exists
  /\ manifest_csv = prev.manifest_csv

RowsWithStatus(status) ==
  Cardinality({i \in 1..Len(manifest_data) : manifest_data[i].status = status})

\* C28 as stated: at the end of a run downloads_successful, downloads_skipped and
\* downloads_failed are the numbers of manifest rows of the run with status
\* downloaded, skipped_existing and failed; their sum does not exceed the number
\* of rows, and a dry_run row counts in none of them.
C28_Original ==
  RunFinished =>
    /\ stats.downloads_successful = RowsWithStatus("downloaded")
    /\ stats.downloads_skipped = RowsWithStatus("skipped_existing")
    /\ stats.downloads_failed = RowsWithStatus("failed")
    /\ stats.downloads_successful + stats.downloads_skipped + stats.downloads_failed
         <= Len(manifest_data)

\* the state that refutes C28: a finished dry run in which every row has status
\* dry_run and downloads_failed counts each of them
C28_DryRunCountedFailed ==
  /\ RunFinished /\ dry_run
  /\ manifest_data # <<>>
  /\ RowsWithStatus("dry_run") = Len(manifest_data)
  /\ RowsWithStatus("failed") = 0
  /\ stats.downloads_failed = Len(manifest_data)

\* C29 as stated: at the end of a run every project id of a manifest row of the
\* run has a row in the run's summary, and so has the project of every file the
\* run wrote, also when the project raised part-way through its documents.
C29_Original ==
  RunFinished =>
    /\ \A i \in 1..Len(manifest_data) : SummaryRowsOf(manifest_data[i].project_id) # {}
    /\ \A k \in 1..Len(dl_log) :
         dl_log[k].status = "downloaded" => SummaryRowsOf(dl_log[k].project_id) # {}

\* the state that refutes C29: a finished run that is not a dry run has a manifest
\* row and a downloaded file of P1, P1 is in the failed-project list, and the
\* summary has no row of P1
C29_RowsWithoutSummary ==
  /\ RunFinished /\ ~dry_run
  /\ \E i \in 1..Len(manifest_data) :
       /\ manifest_data[i].project_id = P1.id
       /\ manifest_data[i].status = "downloaded"
       /\ Exists(files, manifest_data[i].saved_path)
  /\ \E n \in 1..Len(failed_projects) : failed_projects[n] = P1.id
  /\ SummaryRowsOf(P1.id) = {}
  /\ summary_csv.exists
  /\ \A n \in 1..Len(summary_csv.lines) :
       summary_csv.lines[n].kind = "row" => summary_csv.lines[n].value.project_id # P1.id

AttemptsFor(id, t) == {k \in 1..Len(dl_log) : dl_log[k].project_id = id /\ dl_log[k].doc_type = t}

ManifestRowsFor(id, t) ==
  {i \in 1..Len(manifest_data) : manifest_data[i].project_id = id /\ manifest_data[i].doc_type = t}

\* C30: with languages "en" and latest_only set, at most one document is selected
\* for a project and type, whatever the classified documents are, and so at most
\* one download is attempted and at most one manifest row appended for the pair.
C30_AtMostOnePerType ==
  (run_no >= 1 /\ languages = "en" /\ latest_only) =>
    /\ Len(selected_docs) <= 1
    /\ pc = "download" => Len(selected_docs) = 1
    /\ \A id \in ProjectIds : \A t \in {"PID", "PAD"} :
         /\ Cardinality(AttemptsFor(id, t)) <= 1
         /\ Cardinality(ManifestRowsFor(id, t)) <= 1

\* C30 witness: P1 has two English PADs, dated 2020-01-01 and 2021-06-15; the run
\* is over, one download was attempted for P1's PADs, that of the later one, and
\* one row appended
C30_Witness ==
  /\ RunFinished /\ languages = "en" /\ latest_only
  /\ filter_documents(FetchedDocs(P1.id)).PAD = <<doc_pad_en_2020, doc_pad_en_2021>>
  /\ Cardinality(AttemptsFor(P1.id, "PAD")) = 1
  /\ \A k \in AttemptsFor(P1.id, "PAD") : dl_log[k].doc = doc_pad_en_2021
  /\ Cardinality(ManifestRowsFor(P1.id, "PAD")) = 1

(***************************************************************************)
(* PathNamer on its own: _get_document_path for two documents, one after   *)
(* the other, of a downloader whose output directory is empty or not and   *)
(* whose dry_run is set or not.  res holds what each call returned and the *)
(* docna_slug that generate_filename computed on the way.                  *)
(***************************************************************************)
InitPath ==
  LET t120 == [i \in 1..(max_length + 2) |->
                 IF i = max_length THEN "-" ELSE IF i > max_length THEN "B" ELSE "a"]
      names == {Str(txt_A), Str(<<"a", ".", "B", " ", "-", " ", "e_acute", "_">>), Str(t120),
                Dict(("0" :> [docna |-> Str(txt_PAD)]))}
      dates == {Str(d2021 \o <<"T", "0", "0">>), Absent}
      docs == {[k \in {"docna", "pdfurl"} \cup (IF lang = Absent THEN {} ELSE {"lang"})
                        \cup (IF docdt = Absent THEN {} ELSE {"docdt"})
                        \cup (IF repnb = Absent THEN {} ELSE {"repnb"}) |->
                  CASE k = "docna" -> docna [] k = "pdfurl" -> pdfurl [] k = "lang" -> lang
                    [] k = "docdt" -> docdt [] k = "repnb" -> repnb] :
                 docna \in names, pdfurl \in {Url("1"), Url("2")}, lang \in {Str(EN), Absent},
                 docdt \in dates, repnb \in {Str(<<"7">>), Absent}}
  IN /\ input = [kind |-> "ok", projects |-> <<>>]
     /\ server = [id \in {} |-> 0]
     /\ languages = "en" /\ latest_only = FALSE
     /\ pc = "idle"
     /\ arg \in [first : docs, second : docs,
                 call : {[project |-> P1, doc_type |-> "PID"], [project |-> P2, doc_type |-> "PAD"]}]
     /\ \E used \in BOOLEAN :
          /\ dry_run = used
          /\ files = IF used
                     THEN {[path |-> get_document_path(arg.first, arg.call.doc_type, arg.call.project),
                            content |-> <<"x">>]}
                     ELSE {}
     /\ dirs = {} /\ manifest_csv = NoFile /\ summary_csv = NoFile
     /\ run_no = 0 /\ proj_i = 0
     /\ manifest_data = <<>> /\ summary_data = <<>> /\ failed_projects = <<>>
     /\ stats = ZeroStats /\ exit_code = -1
     /\ offset = 0 /\ all_docs = <<>> /\ api_log = <<>> /\ last_call = NoCall
     /\ filtered = NoFilter /\ doc_type = "end" /\ selected_docs = <<>> /\ doc_i = 0
     /\ pid_paths = <<>> /\ pad_paths = <<>>
     /\ dl_log = <<>>
     /\ prev = [run_no |-> 0, dry_run |-> FALSE, manifest_data |-> <<>>, files |-> {},
                dirs |-> {}, manifest_csv |-> NoFile, summary_csv |-> NoFile, faults |-> 0]
     /\ res = <<>>
     /\ phase = "in"

\* one call of _get_document_path, for the first document and then for the second
BuildPath ==
  /\ phase \in {"in", "first"}
  /\ LET doc == IF phase = "in" THEN arg.first ELSE arg.second IN
       res' = Append(res, [docna_slug |-> slug(docna_text(doc)),
                           path |-> get_document_path(doc, arg.call.doc_type, arg.call.project)])
  /\ phase' = IF phase = "in" THEN "first" ELSE "out"
  /\ UNCHANGED <<arg, given, outdir, runvars, fetchvars, projvars, observed>>

NextPath == BuildPath

SpecPath == InitPath /\ [][NextPath]_vars

(***************************************************************************)
(* Claims on PathNamer                                                     *)
(***************************************************************************)
\* what the path may depend on: the project's country, id and title, the
\* resolved type, and the document's date, report number, display name and language
PathInputs(doc, call) ==
  [country |-> call.project.country, project_id |-> call.project.id,
   project_name |-> call.project.title, doc_type |-> call.doc_type,
   docdt |-> Get(doc, "docdt", Absent), repnb |-> Get(doc, "repnb", Absent),
   docna |-> Get(doc, "docna", Absent), lang |-> Get(doc, "lang", Absent)]

BothBuilt == phase = "out" /\ Len(res) = 2

DocsAttempted(id, t) ==
  LET of_type == SelectSeq([k \in 1..Len(dl_log) |-> dl_log[k]],
                           LAMBDA e : e.project_id = id /\ e.doc_type = t)
  IN [k \in 1..Len(of_type) |-> of_type[k].doc]

\* a document without a download URL, or whose transfer failed
DocumentFailed(e) ==
  /\ ~e.success /\ e.status = "failed"
  /\ ~e.called_download_pdf \/ e.transfer # "ok"

\* C22: a selected document without a download URL, or whose transfer fails,
\* does not raise out of process_project: the failed-project list holds the
\* projects whose file naming raises and no other, and for every other project
\* with an id each selected document of each type has been attempted, the ones
\* after a failed document included, and the project has its summary row.
C22_DocumentFailureIsolated ==
  RunFinished =>
    /\ failed_projects = IdsOf(SelectSeq(input.projects, Raises))
    /\ \A k \in 1..Len(input.projects) :
         LET p == input.projects[k] IN
         Completes(p) =>
           /\ Cardinality(SummaryRowsOf(p.id)) = 1
           /\ \A t \in {"PID", "PAD"} : DocsAttempted(p.id, t) = SelectionOf(p.id, t)

\* C22 witness: in a finished run P1's PID has no download URL and its next
\* document is downloaded, a transfer of the run failed, a later project had a
\* document downloaded, and no project is in the failed-project list
C22_Witness ==
  /\ RunFinished /\ ~dry_run /\ failed_projects = <<>>
  /\ \E j, k \in 1..Len(dl_log) :
       /\ j < k
       /\ dl_log[j].project_id = P1.id /\ dl_log[k].project_id = P1.id
       /\ DocumentFailed(dl_log[j]) /\ ~dl_log[j].called_download_pdf
       /\ dl_log[k].status \in {"downloaded", "failed"}
  /\ \E j, k \in 1..Len(dl_log) :
       /\ j < k
       /\ DocumentFailed(dl_log[j]) /\ dl_log[j].transfer \in {"error", "broken"}
       /\ dl_log[k].project_id = P2.id /\ dl_log[k].status = "downloaded"

\* letters and digits
AlnumChars == WordChars \ {"_"}

CombiningMarks == {"combining_tilde", "combining_acute"}

\* every maximal run of characters that are not letters or digits becomes one hyphen
RECURSIVE hyphenate_runs(_)
hyphenate_runs(text) ==
  IF text = <<>> THEN <<>>
  ELSE IF Len(text) = 1
  THEN (IF text[1] \in AlnumChars THEN text ELSE <<"-">>)
  ELSE LET half == Len(text) \div 2
           left == hyphenate_runs(SubSeq(text, 1, half))
           right == hyphenate_runs(SubSeq(text, half + 1, Len(text)))
       IN IF left[Len(left)] = "-" /\ right[1] = "-" THEN left \o Tail(right) ELSE left \o right

\* the slug as the claim words it: normalised, diacritics stripped, lowercase,
\* runs of non-alphanumerics replaced by one hyphen, trimmed, truncated
slug_as_stated(text) ==
  LET plain == SelectSeq(lower(normalize_nfkd(text)), LAMBDA c : c \notin CombiningMarks)
      stripped == rstrip_hyphen(lstrip_hyphen(hyphenate_runs(plain)))
  IN IF Len(stripped) > max_length
     THEN rstrip_hyphen(SubSeq(stripped, 1, max_length))
     ELSE stripped

SlugInput(k) == docna_text(IF k = 1 THEN arg.first ELSE arg.second)

\* C23 as stated: for every text the slug is lowercase, at most 120 characters
\* long, without a hyphen at its start or end, and is the text with every maximal
\* run of non-alphanumeric characters replaced by one hyphen, trimmed and truncated.
C23_Original ==
  \A k \in 1..Len(res) :
    LET s == res[k].docna_slug IN
    /\ s = lower(s)
    /\ Len(s) <= max_length
    /\ s # <<>> => (s[1] # "-" /\ s[Len(s)] # "-")
    /\ s = slug_as_stated(SlugInput(k))

\* the state that refutes C23: the slug of a text in which a full stop stands
\* between two letters has the two letters next to each other
C23_PunctuationDeleted ==
  \E k \in 1..Len(res) :
    /\ SlugInput(k) = <<"a", ".", "B", " ", "-", " ", "e_acute", "_">>
    /\ res[k].docna_slug = <<"a", "b", "-", "e", "_">>
    /\ slug_as_stated(SlugInput(k)) = <<"a", "-", "b", "-", "e">>

====
